---- MODULE Spec2Model ----
(***************************************************************************)
(* Model of the speaker-identification service                             *)
(* (src/services/speaker-id/app.py): the profile store, the embedding      *)
(* extractor, the matcher and the /process attribution handler; and of the *)
(* result cache of the diarization service                                 *)
(* (src/services/diarization/app.py).                                      *)
(***************************************************************************)
EXTENDS Integers, Sequences, FiniteSets, TLC

VARIABLES
    call,   \* harness: the arguments of the function call under examination
    ret,    \* harness: what that call returned ("pending" before it ran)
    SpeakerRecognition,   \* line 21: TRUE when the class was imported, FALSE for None
    verification_model,   \* line 22: the cached model, NoModel for None
    model_loading_error,  \* line 23: the stored error message, None when unset
    loaderCalls,          \* history: calls of SpeakerRecognition.from_hparams so far
    tempFiles,            \* the temporary files on disk: name -> content
    now,                  \* the clock, in half seconds
    threads,              \* the worker threads inside get_verification_model
    profilesDir,          \* the files of PROFILES_DIR: file name -> content
    pc,                   \* /process: "idle" or "identify" (inside the label loop)
    req,                  \* /process: request.json
    loaded_profiles,      \* /process: profiles, the dict load_speaker_profiles returned
    speaker_groups,       \* /process: the dict of line 449, as its items in order
    speaker_mapping,      \* /process: the dict of line 445
    response,             \* /process: the response returned, NoResponse before
    trace,                \* history: the extractions, loads and matches of the request
    first,                \* history: the response to the request being repeated
    Pipeline,             \* diarization: TRUE when pyannote.audio was imported
    pipeline,             \* diarization: the loaded pipeline, None before
    diarization_cache     \* diarization: the files of CACHE_DIR/diarization

harness == <<call, ret>>
diarization == <<Pipeline, pipeline, diarization_cache>>
globals == <<diarization, SpeakerRecognition, verification_model, model_loading_error,
             loaderCalls, tempFiles, now>>
procvars == <<profilesDir, pc, req, loaded_profiles, speaker_groups, speaker_mapping,
              response, trace, first>>
vars == <<harness, globals, threads, procvars>>

(***************************************************************************)
(* Bounds of the model.                                                    *)
(***************************************************************************)
VecMax == 2         \* largest component of an embedding vector
MaxNow == 3         \* the clock stops here: at most MaxNow calls in a run
MaxThreads == 2     \* worker threads serving requests at the same time
MaxSegs == 2        \* largest number of segments in a diarization result
MaxRequests == 2    \* /process requests in a run of Spec
MaxWrites == 3      \* writes to the profile directory in a run of SpecProfiles
MaxEnrolments == 2  \* /api/create-profile requests in a run of SpecEnroll

(***************************************************************************)
(* Values.  Python's None is "None" where a string is expected, NoVec      *)
(* where an embedding is expected.                                         *)
(***************************************************************************)
None == "None"
NoVec == <<>>

Names == {"Alice", "Bob"}
MaxProfiles == Cardinality(Names)

\* embedding vectors, of length 2 in this model
Vecs == {<<x, y>> : x, y \in (-1)..VecMax}
ZeroVec == <<0, 0>>

RECURSIVE DotUpTo(_, _, _)
DotUpTo(a, b, n) == IF n = 0 THEN 0 ELSE DotUpTo(a, b, n - 1) + a[n] * b[n]

\* np.dot of two vectors of the same length
Dot(a, b) == DotUpTo(a, b, Len(a))

\* np.linalg.norm(a) squared
Norm2(a) == Dot(a, a)

(***************************************************************************)
(* Floats.  A similarity computed by match_speaker is                      *)
(*     dot(q, p) / ((|q| + 1e-8) * (|p| + 1e-8))                           *)
(* and is kept as the exact triple [dot, nq, np] (nq, np the squared       *)
(* norms), eps = 1 recording the 1e-8 floor in the denominators.  A float  *)
(* literal num/den is [dot |-> num, nq |-> den * den, np |-> 1, eps |-> 0].*)
(* The floor makes a computed similarity smaller, in absolute value, than  *)
(* the exact cosine by the factor 1 - 1e-8 * (1/|q| + 1/|p|); with a zero  *)
(* vector the normalised vector is the zero vector and the similarity 0.   *)
(***************************************************************************)
Lit(num, den) == [dot |-> num, nq |-> den * den, np |-> 1, eps |-> 0]

Zero == Lit(0, 1)

\* the sign of the float x
Sign(x) == IF x.dot > 0 /\ x.nq > 0 /\ x.np > 0 THEN 1
           ELSE IF x.dot < 0 /\ x.nq > 0 /\ x.np > 0 THEN -1 ELSE 0

\* x and y without their 1e-8 floors: -1, 0, 1 as cos x <, =, > cos y
CmpCos(x, y) ==
    LET sx == Sign(x)
        sy == Sign(y)
        l == x.dot * x.dot * y.nq * y.np
        r == y.dot * y.dot * x.nq * x.np
    IN  IF sx # sy THEN (IF sx < sy THEN -1 ELSE 1)
        ELSE IF sx = 0 THEN 0
        ELSE IF l = r THEN 0
        ELSE IF (l < r) = (sx > 0) THEN -1 ELSE 1

\* x < y for floats x, y that are literals or similarities of one query
\* (x.nq = y.nq whenever both carry the floor)
FloatLess(x, y) ==
    LET c == CmpCos(x, y)
    IN  IF c # 0 THEN c < 0
        ELSE IF Sign(x) = 0 THEN FALSE
        ELSE LET xSmallerAbs ==
                    IF x.eps = y.eps
                    THEN x.eps = 1 /\ x.np < y.np
                    ELSE x.eps = 1
             IN  IF Sign(x) > 0 THEN xSmallerAbs
                 ELSE (x.eps # y.eps \/ x.np # y.np) /\ ~xSmallerAbs

(***************************************************************************)
(* Arrays.  A numpy array or torch tensor is its shape and its data in     *)
(* row-major order; NoEmb stands for None.                                 *)
(***************************************************************************)
NoEmb == [shape |-> <<>>, vec |-> <<>>]

Arr(v) == [shape |-> <<Len(v)>>, vec |-> v]

ndim(a) == Len(a.shape)

\* ndarray.flatten()
flatten(a) == [shape |-> <<Len(a.vec)>>, vec |-> a.vec]

\* lines 378-380, 390-392: np.array(x), flattened when it has more than one axis
As1D(a) == IF ndim(a) > 1 THEN flatten(a) ELSE a

\* lines 386, 394-395 mutated: the absolute value of the dot product
similarity_abs(embedding, profile_emb) ==
    [dot |-> IF Dot(embedding.vec, profile_emb.vec) < 0
             THEN 0 - Dot(embedding.vec, profile_emb.vec)
             ELSE Dot(embedding.vec, profile_emb.vec),
     nq |-> Norm2(embedding.vec), np |-> Norm2(profile_emb.vec), eps |-> 1]

\* lines 386, 394-395: embedding_norm . profile_norm
similarity(embedding, profile_emb) ==
    [dot |-> Dot(embedding.vec, profile_emb.vec), nq |-> Norm2(embedding.vec),
     np |-> Norm2(profile_emb.vec), eps |-> 1]

(***************************************************************************)
(* match_speaker (lines 372-401).  profiles is the dict as the sequence of *)
(* its items, in insertion order.                                          *)
(***************************************************************************)
\* line 397 mutated: a profile replaces the best one on a tie as well
BetterMatch_ge(sim, best_score) == ~FloatLess(sim, best_score)

\* line 397 mutated: the comparison is turned around
BetterMatch_lt(sim, best_score) == FloatLess(sim, best_score)

\* line 397: similarity > best_score
BetterMatch(sim, best_score) == FloatLess(best_score, sim)

\* lines 388-399: the scan of profiles.items() from item i on
RECURSIVE match_loop(_, _, _, _)
match_loop(embedding, profiles, i, best) ==
    IF i > Len(profiles) THEN best
    ELSE LET sim == similarity(embedding, As1D(profiles[i].embedding))
         IN  match_loop(embedding, profiles, i + 1,
                 IF BetterMatch(sim, best.score)
                 THEN [name |-> profiles[i].name, score |-> sim]
                 ELSE best)

\* line 383 mutated: the scan starts below every similarity
InitialBest_low == [name |-> None, score |-> Lit(-2, 1)]

\* lines 382-383: best_match = None, best_score = 0.0
InitialBest == [name |-> None, score |-> Zero]

match_speaker(embedding, profiles) ==
    IF embedding = NoEmb \/ Len(profiles) = 0
    THEN [name |-> None, score |-> Zero]
    ELSE match_loop(As1D(embedding), profiles, 1, InitialBest)

(***************************************************************************)
(* Profile mappings: sequences of items with distinct names.               *)
(***************************************************************************)
ProfileMaps(es) ==
    UNION {{ps \in [1..n -> [name : Names, embedding : es]] :
               \A i, j \in 1..n : i # j => ps[i].name # ps[j].name} :
           n \in 0..MaxProfiles}

Keys(profiles) == {profiles[i].name : i \in 1..Len(profiles)}

\* the arrays of shape (2,) and (1, 2) over Vecs
Embeddings == {[shape |-> sh, vec |-> v] : sh \in {<<2>>, <<1, 2>>}, v \in Vecs}

(***************************************************************************)
(* The process-wide state after the module was imported (lines 21-53).     *)
(***************************************************************************)
NoModel == [kind |-> "None"]

\* the models from_hparams can return: which invocation surfaces they have
Models == [kind : {"model"}, encode_batch : BOOLEAN, encode_file : BOOLEAN,
           mods : {"absent", "no_encoder", "encoder"}]

\* An audio file or waveform is its extension, sample rate, number of samples,
\* the upload it comes from and the sample of that upload's waveform it starts
\* at; NoAudio stands for None.
NoAudio == [ext |-> None, rate |-> 0, samples |-> 0, src |-> None, offset |-> 0]

NoFiles == [n \in {} |-> NoAudio]

Threads == 1..MaxThreads

\* a worker thread: where it is in get_verification_model, for which handler,
\* what it found on entry, whether it called the loader, what it returned
IdleThread == [pc |-> "idle", caller |-> None, cached |-> FALSE, error |-> None,
               invoked |-> FALSE, model |-> NoModel, reported |-> None]

\* the diarization service is not part of the run
NoCache == [h \in {} |-> [kind |-> "corrupt"]]

NoDiarization ==
    /\ Pipeline = FALSE
    /\ pipeline = None
    /\ diarization_cache = NoCache

InitGlobals ==
    /\ NoDiarization
    /\ SpeakerRecognition \in BOOLEAN
    /\ verification_model = NoModel
    /\ model_loading_error = IF SpeakerRecognition THEN None ELSE "Import error"
    /\ loaderCalls = 0
    /\ tempFiles = NoFiles
    /\ now = 0
    /\ threads = [t \in Threads |-> IdleThread]

(***************************************************************************)
(* The profile directory and the state of the /process handler.  A profile *)
(* file is named by its stem and extension; its content is what            *)
(* pickle.load or json.load makes of it.                                   *)
(***************************************************************************)
NoProfileFiles == [f \in {} |-> [kind |-> "corrupt", value |-> NoEmb]]

NoRequest == [json |-> TRUE, diarizationResult |-> [given |-> FALSE, segments |-> <<>>],
              audioFileId |-> None]
NoResponse == [status |-> 0]
NoMapping == [l \in {} |-> None]

InitProcess(dir) ==
    /\ profilesDir = dir
    /\ pc = "idle"
    /\ req = NoRequest
    /\ loaded_profiles = <<>>
    /\ speaker_groups = <<>>
    /\ speaker_mapping = NoMapping
    /\ response = NoResponse
    /\ trace = <<>>
    /\ first = NoResponse

(***************************************************************************)
(* get_verification_model (lines 55-95).  lo is what from_hparams does if  *)
(* it is called: [ok |-> TRUE, model |-> m] or [ok |-> FALSE, exc |-> e].  *)
(***************************************************************************)
LoaderExceptions == {"401", "timeout", "other"}

LoaderOutcomes(ms) ==
    {[ok |-> TRUE, model |-> m, exc |-> None] : m \in ms}
        \cup {[ok |-> FALSE, model |-> NoModel, exc |-> e] : e \in LoaderExceptions}

\* lines 87-92: the message kept for an exception of the loader
LoadErrorMessage(exc) ==
    IF exc = "401" THEN "Model requires HuggingFace authentication"
    ELSE IF exc = "timeout" THEN "Failed to download model from HuggingFace"
    ELSE "Model loading error"

\* lines 59-63 mutated: a stored error stops later loads
NeedsLoad_sticky(sr, vm, err) == sr /\ vm = NoModel /\ err = None

\* lines 59-63 mutated: the cached model is not looked at
NeedsLoad_always(sr, vm, err) == sr

\* lines 59-63: neither early return is taken, so the loader is called
NeedsLoad(sr, vm, err) == sr /\ vm = NoModel

\* lines 73-95: the globals after the loader returned or raised
AfterLoad(lo) ==
    IF lo.ok
    THEN [model |-> lo.model, verification_model |-> lo.model,
          model_loading_error |-> None]
    ELSE [model |-> NoModel, verification_model |-> NoModel,
          model_loading_error |-> LoadErrorMessage(lo.exc)]

get_verification_model(sr, vm, err, lo) ==
    IF NeedsLoad(sr, vm, err)
    THEN [model |-> AfterLoad(lo).model,
          verification_model |-> AfterLoad(lo).verification_model,
          model_loading_error |-> AfterLoad(lo).model_loading_error,
          loads |-> 1]
    ELSE [model |-> IF sr THEN vm ELSE NoModel,
          verification_model |-> vm, model_loading_error |-> err, loads |-> 0]

(***************************************************************************)
(* Audio and the temporary files.                                          *)
(***************************************************************************)
Put(f, k, v) == [x \in DOMAIN f \cup {k} |-> IF x = k THEN v ELSE f[x]]

Remove(f, k) == [x \in DOMAIN f \ {k} |-> f[x]]

\* int(time.time()) of lines 166, 258
Sec(t) == t \div 2

\* lines 170, 262: ffmpeg -ar 16000
FFMPEG_RATE == 16000

\* lines 168-174: the file a successful ffmpeg run writes
Converted(audio) ==
    [ext |-> "wav", rate |-> FFMPEG_RATE,
     samples |-> (audio.samples * FFMPEG_RATE) \div audio.rate, src |-> audio.src,
     offset |-> (audio.offset * FFMPEG_RATE) \div audio.rate]

\* the incomplete output a failed ffmpeg or torchaudio.save run can leave
Truncated(audio) ==
    [ext |-> "wav", rate |-> 0, samples |-> 0, src |-> audio.src, offset |-> 0]

FfmpegOutcomes == {"ok", "fail", "fail_partial"}
CallOutcomes == {"ok", "raise"}

\* the temporary files after ffmpeg was run on audio with output temp
AfterFfmpeg(tf, temp, audio, outcome) ==
    IF outcome = "ok" THEN Put(tf, temp, Converted(audio))
    ELSE IF outcome = "fail_partial" THEN Put(tf, temp, Truncated(audio))
    ELSE tf

(***************************************************************************)
(* extract_segment_audio (lines 154-210).  o = [ffmpeg, load].             *)
(***************************************************************************)
\* lines 185-186 mutated: the end is not clamped
ClampEnd_none(end_sample, length) == end_sample

\* lines 185-186: if end_sample > waveform.shape[1]: end_sample = waveform.shape[1]
ClampEnd(end_sample, length) == IF end_sample > length THEN length ELSE end_sample

extract_segment_audio(tf, audio, start_sec, end_sec, t, o) ==
    LET convert == audio.ext # "wav"
        temp == <<"temp_segment", Sec(t)>>
        tf1 == IF convert THEN AfterFfmpeg(tf, temp, audio, o.ffmpeg) ELSE tf
        created == IF convert /\ o.ffmpeg # "fail" THEN {temp} ELSE {}
        loaded == ~(convert /\ o.ffmpeg # "ok") /\ o.load = "ok"
        waveform == IF convert THEN tf1[temp] ELSE audio
        failed == [segment |-> NoAudio, tempFiles |-> tf1, created |-> created,
                   waveform |-> IF loaded THEN waveform ELSE NoAudio]
        start_sample == start_sec * waveform.rate
        end_sample == ClampEnd(end_sec * waveform.rate, waveform.samples)
    IN  IF convert /\ o.ffmpeg # "ok" THEN failed            \* lines 202-205
        ELSE IF o.load = "raise" THEN failed                 \* lines 206-210
        ELSE IF start_sample >= end_sample THEN failed       \* lines 187-189
        ELSE [segment |-> [ext |-> "wav", rate |-> waveform.rate,
                           samples |-> end_sample - start_sample,
                           src |-> waveform.src,
                           offset |-> waveform.offset + start_sample],  \* 191
              tempFiles |-> IF convert THEN Remove(tf1, temp) ELSE tf1,  \* 195-199
              created |-> created, waveform |-> waveform]

(***************************************************************************)
(* create_embedding_from_audio_file (lines 238-347).                       *)
(* o = [loader, ffmpeg, load, s1, s2, s3, shape, voice]: s1..s3 are what   *)
(* encode_batch, encode_file and the encoder module do when invoked, shape *)
(* and voice the tensor such a call returns.                               *)
(***************************************************************************)
StrategyOutcomes == {"raise", "null", "value"}
RawShapes == {<<2>>, <<1, 2>>, <<1, 1, 2>>}

\* Tensor.squeeze(0)
squeeze0(a) ==
    IF ndim(a) > 0 /\ a.shape[1] = 1 THEN [shape |-> Tail(a.shape), vec |-> a.vec]
    ELSE a

\* lines 295-296, 318-319: if embedding.dim() > 1: embedding = embedding.squeeze(0)
SqueezeBatch(a) == IF ndim(a) > 1 THEN squeeze0(a) ELSE a

\* line 289: hasattr(model, 'encode_batch')
TryEncodeBatch(model) == model.encode_batch

\* line 301 mutated: encode_file is tried whatever came before
TryEncodeFile_always(embedding, model) == model.encode_file

\* line 301: embedding is None and hasattr(model, 'encode_file')
TryEncodeFile(embedding, model) == embedding = NoEmb /\ model.encode_file

\* lines 308-312: embedding is None, hasattr(model, 'mods'), an encoder in it
TryEncoder(embedding, model) == embedding = NoEmb /\ model.mods = "encoder"

\* lines 285-321: the embedding, the strategy whose result it is and the
\* strategies invoked, in order
run_strategies(model, o) ==
    LET raw == [shape |-> o.shape, vec |-> o.voice]
        try1 == TryEncodeBatch(model)
        e1 == IF try1 /\ o.s1 = "value" THEN SqueezeBatch(raw) ELSE NoEmb
        try2 == TryEncodeFile(e1, model)
        e2 == IF try2 THEN (IF o.s2 = "value" THEN raw ELSE e1) ELSE e1
        try3 == TryEncoder(e2, model)
        e3 == IF try3 THEN (IF o.s3 = "value" THEN SqueezeBatch(raw) ELSE e2) ELSE e2
    IN  [embedding |-> e3,
         accepted |-> IF try3 /\ o.s3 = "value" THEN "encoder"
                      ELSE IF try2 /\ o.s2 = "value" THEN "encode_file"
                      ELSE IF try1 /\ o.s1 = "value" THEN "encode_batch" ELSE None,
         invoked |-> (IF try1 THEN <<"encode_batch">> ELSE <<>>)
                     \o (IF try2 THEN <<"encode_file">> ELSE <<>>)
                     \o (IF try3 THEN <<"encoder">> ELSE <<>>)]

create_embedding_from_audio_file(sr, vm, err, tf, audio, t, o) ==
    LET g == get_verification_model(sr, vm, err, o.loader)
        convert == audio.ext # "wav"
        temp == <<"temp_convert", Sec(t)>>
        tf1 == IF convert THEN AfterFfmpeg(tf, temp, audio, o.ffmpeg) ELSE tf
        created == IF convert /\ o.ffmpeg # "fail" THEN {temp} ELSE {}
        st == run_strategies(g.model, o)
        out(e, files, made, inv, gg) ==
            [embedding |-> e, tempFiles |-> files, created |-> made, invoked |-> inv,
             accepted |-> IF inv = <<>> THEN None ELSE st.accepted,
             verification_model |-> gg.verification_model,
             model_loading_error |-> gg.model_loading_error, loads |-> gg.loads]
        \* lines 341-347: the finally clause
        cleaned == IF convert THEN Remove(tf1, temp) ELSE tf1
    IN  IF ~sr                                               \* lines 240-241
        THEN out(NoEmb, tf, {}, <<>>,
                 [verification_model |-> vm, model_loading_error |-> err, loads |-> 0])
        ELSE IF g.model = NoModel THEN out(NoEmb, tf, {}, <<>>, g)    \* 244-246
        ELSE IF convert /\ o.ffmpeg # "ok"
             THEN out(NoEmb, cleaned, created, <<>>, g)               \* 268-270
        ELSE IF o.load = "raise" THEN out(NoEmb, cleaned, created, <<>>, g)  \* 336-340
        ELSE out(st.embedding, cleaned, created, st.invoked, g)       \* 323-335

(***************************************************************************)
(* compute_speaker_embedding (lines 212-236).                              *)
(* o = [ffmpeg, load, save, create]: create is the oracle of the call of   *)
(* create_embedding_from_audio_file.                                       *)
(***************************************************************************)
\* the name tempfile.NamedTemporaryFile picks: one no file has
FreshTmp(tf) ==
    <<"tmp", CHOOSE k \in 0..Cardinality(DOMAIN tf) : <<"tmp", k>> \notin DOMAIN tf>>

compute_speaker_embedding(sr, vm, err, tf, audio, start_sec, end_sec, t, o) ==
    LET ex == extract_segment_audio(tf, audio, start_sec, end_sec, t, o)
        tmp_path == FreshTmp(ex.tempFiles)
        tf1 == Put(ex.tempFiles, tmp_path,
                   IF o.save = "ok" THEN ex.segment ELSE Truncated(ex.segment))
        ce == create_embedding_from_audio_file(sr, vm, err, tf1, ex.segment, t, o.create)
        out(e, files, made, inv, gg, n) ==
            [embedding |-> e, tempFiles |-> files, created |-> made, invoked |-> inv,
             verification_model |-> gg.verification_model,
             model_loading_error |-> gg.model_loading_error, loads |-> gg.loads,
             extractions |-> n]
        same == [verification_model |-> vm, model_loading_error |-> err, loads |-> 0]
    IN  IF ~sr THEN out(NoEmb, tf, {}, <<>>, same, 0)                 \* 214-215
        ELSE IF ex.segment = NoAudio
             THEN out(NoEmb, ex.tempFiles, ex.created, <<>>, same, 1) \* 219-220
        ELSE IF o.save = "raise"
             THEN out(NoEmb, tf1, ex.created \cup {tmp_path}, <<>>, same, 1) \* 234-236
        ELSE out(ce.embedding, Remove(ce.tempFiles, tmp_path),        \* 230-233
                 ex.created \cup {tmp_path} \cup ce.created, ce.invoked, ce, 1)

(***************************************************************************)
(* SpecMatch: match_speaker applied to every query and profile mapping.    *)
(***************************************************************************)
InitMatch ==
    /\ call \in [fn : {"match_speaker"}, embedding : Embeddings,
                 profiles : ProfileMaps(Embeddings)]
    /\ ret = [fn |-> "pending"]
    /\ InitGlobals
    /\ InitProcess(NoProfileFiles)

CallMatch ==
    /\ call.fn = "match_speaker"
    /\ ret.fn = "pending"
    /\ ret' = [fn |-> "match_speaker",
               result |-> match_speaker(call.embedding, call.profiles)]
    /\ UNCHANGED <<call, globals, threads, procvars>>

NextMatch == CallMatch

SpecMatch == InitMatch /\ [][NextMatch]_vars

(***************************************************************************)
(* The environment of the extraction calls: the uploaded audio files, the  *)
(* (start, end) intervals asked for, in seconds, and the vectors the       *)
(* embedding model computes.                                               *)
(***************************************************************************)
UploadIds == {"talk.wav", "talk.mp3"}

\* two seconds of audio each, sampled at 8 kHz
UPLOADS == [id \in UploadIds |->
              [ext |-> IF id = "talk.wav" THEN "wav" ELSE "mp3",
               rate |-> 8000, samples |-> 16000, src |-> id, offset |-> 0]]

\* inside the audio, empty, ending after the audio, inverted, after the audio
Intervals == {<<0, 1>>, <<1, 1>>, <<1, 3>>, <<2, 1>>, <<3, 4>>}

Voices == {<<2, 0>>, <<1, 2>>, <<-1, 0>>}

FullModel == [kind |-> "model", encode_batch |-> TRUE, encode_file |-> TRUE,
              mods |-> "encoder"]
BareModel == [kind |-> "model", encode_batch |-> FALSE, encode_file |-> FALSE,
              mods |-> "absent"]

\* an oracle for a call of create_embedding_from_audio_file whose external
\* calls are not made
NoCreate ==
    [loader |-> [ok |-> FALSE, model |-> NoModel, exc |-> "other"], ffmpeg |-> "ok",
     load |-> "ok", s1 |-> "raise", s2 |-> "raise", s3 |-> "raise",
     shape |-> <<2>>, voice |-> ZeroVec]

Has(seq, x) == \E i \in 1..Len(seq) : seq[i] = x

\* The oracles of the invocation strategies of model: an outcome for every
\* strategy that is invoked given the outcomes before it, and a tensor (from
\* the vectors vs) when an embedding results.
StrategyOracles(model, vs) ==
    LET o3(a, b, c) == [NoCreate EXCEPT !.s1 = a, !.s2 = b, !.s3 = c]
        S(inv, name) == IF Has(inv, name) THEN StrategyOutcomes ELSE {"raise"}
        tensors(o) ==
            IF run_strategies(model, o).embedding = NoEmb /\ o.s1 # "value"
                   /\ o.s2 # "value" /\ o.s3 # "value"
            THEN {o}
            ELSE {[o EXCEPT !.shape = sh, !.voice = v] : sh \in RawShapes, v \in vs}
    IN  UNION {UNION {UNION {tensors(o3(a, b, c)) :
                 c \in S(run_strategies(model, o3(a, b, "raise")).invoked, "encoder")} :
                 b \in S(run_strategies(model, o3(a, "raise", "raise")).invoked,
                         "encode_file")} :
                 a \in S(run_strategies(model, NoCreate).invoked, "encode_batch")}

\* The oracles of create_embedding_from_audio_file on audio: an outcome for
\* every external call the run makes (the loader when a load is needed, with
\* a model of ms; ffmpeg for a file that is not WAV; torchaudio.load; the
\* strategies), NoCreate's for the others.
CreateOracles(sr, vm, err, audio, ms, vs) ==
    UNION {
        LET model == get_verification_model(sr, vm, err, lo).model
        IN  IF model = NoModel THEN {[NoCreate EXCEPT !.loader = lo]}
            ELSE UNION {
                IF ff # "ok" THEN {[NoCreate EXCEPT !.loader = lo, !.ffmpeg = ff]}
                ELSE {[NoCreate EXCEPT !.loader = lo, !.load = "raise"]}
                     \cup {[so EXCEPT !.loader = lo] : so \in StrategyOracles(model, vs)} :
                ff \in IF audio.ext # "wav" THEN FfmpegOutcomes ELSE {"ok"}} :
        lo \in IF NeedsLoad(sr, vm, err) THEN LoaderOutcomes(ms) ELSE {NoCreate.loader}}

\* The oracles of extract_segment_audio on audio.
ExtractOracles(audio) ==
    UNION {{[ffmpeg |-> ff, load |-> ld] :
               ld \in IF ff = "ok" THEN CallOutcomes ELSE {"ok"}} :
           ff \in IF audio.ext # "wav" THEN FfmpegOutcomes ELSE {"ok"}}

\* The oracles of compute_speaker_embedding on the interval iv of audio.
ComputeOracles(sr, vm, err, tf, audio, iv, t, ms, vs) ==
    UNION {
        LET seg == extract_segment_audio(tf, audio, iv[1], iv[2], t, eo).segment
            base == [ffmpeg |-> eo.ffmpeg, load |-> eo.load, save |-> "ok",
                     create |-> NoCreate]
        IN  IF seg = NoAudio THEN {base}
            ELSE {[base EXCEPT !.save = "raise"]}
                 \cup {[base EXCEPT !.create = co] :
                          co \in CreateOracles(sr, vm, err, seg, ms, vs)} :
        eo \in IF sr THEN ExtractOracles(audio) ELSE {[ffmpeg |-> "ok", load |-> "ok"]}}

(***************************************************************************)
(* SpecExtract: the three extraction functions called one after another    *)
(* in one process, on every input and with every outcome of the external   *)
(* calls.  ret keeps what the call returned and the files it created.      *)
(***************************************************************************)
InitExtract ==
    /\ call = [fn |-> "none"]
    /\ ret = [fn |-> "pending"]
    /\ InitGlobals
    /\ InitProcess(NoProfileFiles)

\* the globals after a call that returned the record r
SetGlobals(r) ==
    /\ verification_model' = r.verification_model
    /\ model_loading_error' = r.model_loading_error
    /\ loaderCalls' = loaderCalls + r.loads
    /\ tempFiles' = r.tempFiles
    /\ now' = now + 1

CallExtractSegment ==
    /\ now < MaxNow
    /\ \E id \in UploadIds, iv \in Intervals :
       \E o \in ExtractOracles(UPLOADS[id]) :
         LET r == extract_segment_audio(tempFiles, UPLOADS[id], iv[1], iv[2], now, o)
         IN  /\ call' = [fn |-> "extract_segment_audio", audio |-> UPLOADS[id],
                         start |-> iv[1], end |-> iv[2]]
             /\ ret' = [fn |-> "extract_segment_audio", segment |-> r.segment,
                        created |-> r.created, waveform |-> r.waveform]
             /\ tempFiles' = r.tempFiles
             /\ now' = now + 1
    /\ UNCHANGED <<diarization, SpeakerRecognition, verification_model, model_loading_error,
                   loaderCalls, threads, procvars>>

CallComputeEmbedding ==
    /\ now < MaxNow
    /\ \E id \in UploadIds, iv \in Intervals :
       \E o \in ComputeOracles(SpeakerRecognition, verification_model,
                    model_loading_error, tempFiles, UPLOADS[id], iv, now,
                    {FullModel, BareModel}, {<<2, 0>>}) :
         LET r == compute_speaker_embedding(SpeakerRecognition, verification_model,
                      model_loading_error, tempFiles, UPLOADS[id], iv[1], iv[2], now, o)
         IN  /\ call' = [fn |-> "compute_speaker_embedding", audio |-> UPLOADS[id],
                         start |-> iv[1], end |-> iv[2]]
             /\ ret' = [fn |-> "compute_speaker_embedding", embedding |-> r.embedding,
                        created |-> r.created]
             /\ SetGlobals(r)
    /\ UNCHANGED <<diarization, SpeakerRecognition, threads, procvars>>

NextExtract == CallExtractSegment \/ CallComputeEmbedding

SpecExtract == InitExtract /\ [][NextExtract]_vars

(***************************************************************************)
(* SpecEncode: create_embedding_from_audio_file called one time after      *)
(* another in one process, with every model the loader can return and      *)
(* every outcome of the external calls.  call keeps what the strategies    *)
(* did, ret what the call returned.                                        *)
(***************************************************************************)
CallCreateEmbedding ==
    /\ now < MaxNow
    /\ \E id \in UploadIds :
       \E o \in CreateOracles(SpeakerRecognition, verification_model,
                    model_loading_error, UPLOADS[id], Models, {<<2, 0>>}) :
         LET r == create_embedding_from_audio_file(SpeakerRecognition,
                      verification_model, model_loading_error, tempFiles,
                      UPLOADS[id], now, o)
         IN  /\ call' = [fn |-> "create_embedding_from_audio_file",
                         audio |-> UPLOADS[id], ffmpeg |-> o.ffmpeg, load |-> o.load,
                         s1 |-> o.s1, s2 |-> o.s2, s3 |-> o.s3]
             /\ ret' = [fn |-> "create_embedding_from_audio_file",
                        embedding |-> r.embedding, created |-> r.created,
                        invoked |-> r.invoked, accepted |-> r.accepted]
             /\ SetGlobals(r)
    /\ UNCHANGED <<diarization, SpeakerRecognition, threads, procvars>>

NextEncode == CallCreateEmbedding

SpecEncode == InitExtract /\ [][NextEncode]_vars

(***************************************************************************)
(* SpecModel: the worker threads of the process calling                    *)
(* get_verification_model, from /health (line 106), from enrollment (line  *)
(* 579) and from create_embedding_from_audio_file (line 244).  A call is   *)
(* two steps when it loads: the tests of lines 59-63, then the loader      *)
(* returning or raising and the assignments of lines 73-95.  /health reads *)
(* model_loading_error for its response after the call returned.           *)
(***************************************************************************)
Callers == {"health", "create_profile", "create_embedding"}

\* lines 59-72: thread t enters get_verification_model for handler c
GvmEnter(t, c) ==
    /\ threads[t].pc = "idle"
    /\ now < MaxNow
    /\ LET load == NeedsLoad(SpeakerRecognition, verification_model, model_loading_error)
       IN  /\ threads' = [threads EXCEPT ![t] =
                  [pc |-> IF load THEN "loading" ELSE "returned", caller |-> c,
                   cached |-> verification_model # NoModel,
                   error |-> model_loading_error, invoked |-> load,
                   model |-> IF SpeakerRecognition THEN verification_model ELSE NoModel,
                   reported |-> None]]
           /\ loaderCalls' = loaderCalls + (IF load THEN 1 ELSE 0)
    /\ now' = now + 1
    /\ UNCHANGED <<harness, diarization, SpeakerRecognition, verification_model,
                   model_loading_error, tempFiles, procvars>>

\* lines 73-95: from_hparams returns or raises in thread t
GvmLoaded(t) ==
    /\ threads[t].pc = "loading"
    /\ \E lo \in LoaderOutcomes({FullModel, BareModel}) :
         /\ verification_model' = AfterLoad(lo).verification_model
         /\ model_loading_error' = AfterLoad(lo).model_loading_error
         /\ threads' = [threads EXCEPT ![t].pc = "returned",
                                       ![t].model = AfterLoad(lo).model]
    /\ UNCHANGED <<harness, diarization, SpeakerRecognition, loaderCalls, tempFiles, now, procvars>>

\* lines 107-117 and the callers' returns: the handler of thread t finishes;
\* /health reports the stored error
HandlerDone(t) ==
    /\ threads[t].pc = "returned"
    /\ threads' = [threads EXCEPT ![t].pc = "done",
                                  ![t].reported = IF threads[t].caller = "health"
                                                  THEN model_loading_error ELSE None]
    /\ UNCHANGED <<harness, globals, procvars>>

\* thread t takes the next request
NextRequest(t) ==
    /\ threads[t].pc = "done"
    /\ threads' = [threads EXCEPT ![t] = IdleThread]
    /\ UNCHANGED <<harness, globals, procvars>>

NextModel ==
    \E t \in Threads :
        \/ \E c \in Callers : GvmEnter(t, c)
        \/ GvmLoaded(t)
        \/ HandlerDone(t)
        \/ NextRequest(t)

SpecModel == InitExtract /\ [][NextModel]_vars

(***************************************************************************)
(* load_speaker_profiles (lines 119-152).  A file of PROFILES_DIR is       *)
(* [stem, ext]; its content is [kind, value]: a dict with the key          *)
(* 'embedding' or 'vector', a bare list ("raw"), a dict with neither key   *)
(* ("no_embedding"), or bytes the parser rejects ("corrupt").  order is    *)
(* the order in which os.listdir returns the files.  The value is an array *)
(* or NotAVector.                                                          *)
(***************************************************************************)
ProfileFile(stem, ext) == [stem |-> stem, ext |-> ext]

Content(kind, value) == [kind |-> kind, value |-> value]

\* a parsed value that is no vector, such as the JSON string "n/a"
NotAVector == [shape |-> <<>>, vec |-> <<"n/a">>]

\* lines 141-144, NoEmb when pickle.load or json.load raises (line 149).  A
\* dict whose key 'embedding' holds null ("null_embedding") yields None
\* whatever it has under 'vector': the default of get is not used then.
embedding_of(profile_data) ==
    IF profile_data.kind \in {"embedding", "vector", "raw"}
    THEN profile_data.value ELSE NoEmb

\* line 129: os.path.splitext(filename)[0]; a name that is all extension,
\* like ".pkl", has no extension for splitext
splitext_stem(filename) ==
    IF filename.stem = "" THEN "." \o filename.ext ELSE filename.stem

\* profiles[speaker_name] = embedding on a dict kept as its items in order
DictPut(profiles, speaker_name, embedding) ==
    IF \E i \in 1..Len(profiles) : profiles[i].name = speaker_name
    THEN [i \in 1..Len(profiles) |->
             IF profiles[i].name = speaker_name
             THEN [name |-> speaker_name, embedding |-> embedding]
             ELSE profiles[i]]
    ELSE Append(profiles, [name |-> speaker_name, embedding |-> embedding])

\* lines 127-150: the loop over os.listdir from file i on
RECURSIVE load_loop(_, _, _, _)
load_loop(dir, order, i, profiles) ==
    IF i > Len(order) THEN profiles
    ELSE LET filename == order[i]
             embedding == embedding_of(dir[filename])
         IN  load_loop(dir, order, i + 1,
                 IF filename.ext \in {"pkl", "json"} /\ embedding # NoEmb
                 THEN DictPut(profiles, splitext_stem(filename), embedding)
                 ELSE profiles)

load_speaker_profiles(dir, order) == load_loop(dir, order, 1, <<>>)

\* the orders in which os.listdir can return the files S
Orders(S) == {o \in [1..Cardinality(S) -> S] :
                 \A i, j \in 1..Cardinality(S) : i # j => o[i] # o[j]}

(***************************************************************************)
(* save_speaker_profile (lines 349-370).  secure_filename is werkzeug's:   *)
(* it maps separators and white space to "_", drops every character that   *)
(* is not an ASCII letter, digit, "_", "." or "-", and strips "." and "_"  *)
(* from both ends.  It is given here on the names of the model.            *)
(***************************************************************************)
RawNames == {"Alice", "Ann Lee", "Ann_Lee", "???"}

secure_filename ==
    [n \in RawNames |->
        CASE n = "Alice" -> "Alice"
          [] n = "Ann Lee" -> "Ann_Lee"
          [] n = "Ann_Lee" -> "Ann_Lee"
          [] n = "???" -> ""]

\* line 355 mutated: the file is named by the raw name
StorageKey_raw(speaker_name) == speaker_name

\* line 355: secure_filename(speaker_name)
StorageKey(speaker_name) == secure_filename[speaker_name]

\* what open and pickle.dump do (lines 364-365): both succeed; open raises;
\* pickle.dump raises after open has truncated the file
SaveOutcomes == {"ok", "fail_open", "fail_dump"}

\* the directory after the call and the path returned (None on failure).
\* embedding.tolist() read back by np.array has the shape and the values of
\* embedding.
save_speaker_profile(dir, speaker_name, embedding, outcome) ==
    LET profile_path == ProfileFile(StorageKey(speaker_name), "pkl")
    IN  IF outcome = "ok"
        THEN [dir |-> Put(dir, profile_path, Content("embedding", embedding)),
              path |-> profile_path, saved |-> TRUE]
        ELSE [dir |-> IF outcome = "fail_dump"
                      THEN Put(dir, profile_path, Content("corrupt", NoEmb))
                      ELSE dir,
              path |-> profile_path, saved |-> FALSE]

\* the profile directories a run starts with: empty; one profile beside a
\* file that is neither .pkl nor .json; two profiles, the second a JSON list
\* of shape (1, 2); two files neither of which yields a profile
InitialDirs ==
    {NoProfileFiles,
     (ProfileFile("Alice", "pkl") :> Content("embedding", Arr(<<2, 0>>)))
        @@ (ProfileFile("Bob", "txt") :> Content("raw", Arr(<<1, 2>>))),
     (ProfileFile("Alice", "pkl") :> Content("embedding", Arr(<<2, 0>>)))
        @@ (ProfileFile("Bob", "json")
               :> Content("raw", [shape |-> <<1, 2>>, vec |-> <<1, 2>>])),
     (ProfileFile("Alice", "pkl") :> Content("corrupt", NoEmb))
        @@ (ProfileFile("Bob", "json") :> Content("no_embedding", NoEmb))}

(***************************************************************************)
(* The requests to /process (lines 410-413).  The body is JSON or not;     *)
(* diarizationResult is absent or empty (given = FALSE) or a dict with its *)
(* segments; a segment is its speaker label and its interval in seconds.   *)
(***************************************************************************)
Labels == {"SPEAKER_00", "SPEAKER_01"}

\* inside the audio, and empty
SegmentIntervals == {<<0, 1>>, <<1, 1>>}

Segments == [speaker : Labels, start : {iv[1] : iv \in SegmentIntervals},
             end : {iv[2] : iv \in SegmentIntervals}]

SegmentLists ==
    UNION {{s \in [1..n -> Segments] :
               \A i \in 1..n : <<s[i].start, s[i].end>> \in SegmentIntervals} :
           n \in 0..MaxSegs}

\* every segment list with an uploaded file; the lists of at most one segment
\* with no audioFileId and with one that names no file; no diarizationResult;
\* a body that is not JSON
Requests ==
    {[json |-> TRUE, diarizationResult |-> [given |-> TRUE, segments |-> s],
      audioFileId |-> a] :
        s \in SegmentLists, a \in UploadIds}
    \cup {[json |-> TRUE, diarizationResult |-> [given |-> TRUE, segments |-> s],
           audioFileId |-> a] :
              s \in {l \in SegmentLists : Len(l) <= 1}, a \in {None, "gone.wav"}}
    \cup {[json |-> TRUE, diarizationResult |-> [given |-> FALSE, segments |-> <<>>],
           audioFileId |-> a] : a \in {None, "talk.wav"}}
    \cup {[NoRequest EXCEPT !.json = FALSE]}

(***************************************************************************)
(* /process (lines 403-536).  A response is its status code and its JSON   *)
(* body; an error message is kept as its text with the values formatted    *)
(* into it as further fields.                                              *)
(***************************************************************************)
\* line 15 mutated: a threshold of 0.4
CONFIDENCE_THRESHOLD_low == Lit(2, 5)

\* line 15
CONFIDENCE_THRESHOLD == Lit(7, 10)

\* line 466
MOCK_CONFIDENCE == Lit(85, 100)

\* speaker_id[-2:]
Last2 == [l \in Labels |-> IF l = "SPEAKER_00" THEN "00" ELSE "01"]

\* line 465
MockName(speaker_id) == "Speaker_" \o Last2[speaker_id]

ErrorResponse(status, error) == [status |-> status, body |-> [error |-> error]]

\* lines 532-536: an exception raised in the handler, as request.json raises
\* for a body that is not JSON
UnhandledException == ErrorResponse(500, [message |-> "exception"])
\* line 416
DiarizationRequired == ErrorResponse(400, [message |-> "diarizationResult is required"])
\* line 419
AudioFileIdRequired == ErrorResponse(400, [message |-> "audioFileId is required"])
\* lines 427-429
NoProfilesFound == ErrorResponse(400, [message |-> "No speaker profiles found"])
\* line 437
NoSegmentsFound ==
    ErrorResponse(400, [message |-> "No segments found in diarization result"])
\* line 441
AudioNotFound(audio_file_id) ==
    ErrorResponse(404, [message |-> "Audio file not found", file |-> audio_file_id])
\* lines 473-475
ExtractionFailedResponse(speaker_id, start_sec, end_sec) ==
    ErrorResponse(500, [message |-> "Failed to extract embedding for diarized speaker",
                        speaker |-> speaker_id, start |-> start_sec, end |-> end_sec])
\* lines 482-485
NoMatchResponse(speaker_id, available_profiles) ==
    ErrorResponse(500, [message |-> "Could not identify speaker for diarized speaker",
                        speaker |-> speaker_id, available |-> available_profiles])
\* lines 496-504 mutated: a status of its own for the rejection
LowConfidenceResponse_422(speaker_id, speaker_name, confidence) ==
    [status |-> 422,
     body |-> [error |-> [message |-> "Speaker identification confidence too low for",
                          speaker |-> speaker_id],
               details |-> [speakerName |-> speaker_name, confidence |-> confidence,
                            threshold |-> CONFIDENCE_THRESHOLD]]]

\* lines 496-504
LowConfidenceResponse(speaker_id, speaker_name, confidence) ==
    [status |-> 400,
     body |-> [error |-> [message |-> "Speaker identification confidence too low for",
                          speaker |-> speaker_id],
               details |-> [speakerName |-> speaker_name, confidence |-> confidence,
                            threshold |-> CONFIDENCE_THRESHOLD]]]

\* line 426 mutated: the check for an empty profile set is left out
NoProfiles_skipped(profiles) == FALSE

\* line 426
NoProfiles(profiles) == Len(profiles) = 0

\* line 472 mutated: a failed extraction goes on to the matcher
ExtractionFailed_ignored(embedding) == FALSE

\* line 472
ExtractionFailed(embedding) == embedding = NoEmb

\* line 463 mutated: every request is served in mock mode
MockMode_always(sr) == TRUE

\* line 463: SpeakerRecognition is None
MockMode(sr) == ~sr

\* line 488
\* line 488 mutated: no confidence is too low
BelowThreshold_never(confidence) == FALSE

\* line 488: confidence < CONFIDENCE_THRESHOLD
BelowThreshold(confidence) == FloatLess(confidence, CONFIDENCE_THRESHOLD)

\* lines 452-454 on the dict of groups kept as its items in order
GroupAdd(groups, segment) ==
    IF \E i \in 1..Len(groups) : groups[i].speaker = segment.speaker
    THEN [i \in 1..Len(groups) |->
             IF groups[i].speaker = segment.speaker
             THEN [groups[i] EXCEPT !.segments = Append(@, segment)]
             ELSE groups[i]]
    ELSE Append(groups, [speaker |-> segment.speaker, segments |-> <<segment>>])

RECURSIVE group_loop(_, _, _)
group_loop(segments, i, groups) ==
    IF i > Len(segments) THEN groups
    ELSE group_loop(segments, i + 1, GroupAdd(groups, segments[i]))

\* lines 449-454 mutated: only the first segment is grouped
group_segments_first(segments) == group_loop(SubSeq(segments, 1, 1), 1, <<>>)

\* lines 449-454
group_segments(segments) == group_loop(segments, 1, <<>>)

\* one entry for the first segment of each label only
identified_segments_representatives(segments, mapping) ==
    [g \in 1..Len(group_segments(segments)) |->
        [speakerName |-> mapping[group_segments(segments)[g].speaker],
         speakerId |-> group_segments(segments)[g].speaker,
         start |-> group_segments(segments)[g].segments[1].start,
         end |-> group_segments(segments)[g].segments[1].end]]

\* lines 510-519
identified_segments(segments, mapping) ==
    [j \in 1..Len(segments) |->
        [speakerName |-> IF segments[j].speaker \in DOMAIN mapping
                         THEN mapping[segments[j].speaker] ELSE "Unknown",
         speakerId |-> segments[j].speaker,
         start |-> segments[j].start, end |-> segments[j].end]]

\* lines 521-530
SuccessResponse(segments, mapping, t) ==
    [status |-> 200,
     body |-> [identifiedSegments |-> identified_segments(segments, mapping),
               speakerMapping |-> mapping, processedAt |-> t]]

\* lines 410, 415-441: the response of the checks before the label loop,
\* NoResponse when all of them pass
validate(r, profiles) ==
    IF ~r.json THEN UnhandledException
    ELSE IF ~r.diarizationResult.given THEN DiarizationRequired
    ELSE IF r.audioFileId = None THEN AudioFileIdRequired
    ELSE IF NoProfiles(profiles) THEN NoProfilesFound
    ELSE IF Len(r.diarizationResult.segments) = 0 THEN NoSegmentsFound
    ELSE IF r.audioFileId \notin UploadIds THEN AudioNotFound(r.audioFileId)
    ELSE NoResponse

\* history events of a request: load_speaker_profiles called ("profiles"),
\* compute_speaker_embedding called for a label ("extract", ok when it
\* returned an embedding), from_hparams called ("model_load"), match_speaker
\* called ("match", with what it returned)
Event(op, speaker_id, ok, name, score) ==
    [op |-> op, speaker |-> speaker_id, ok |-> ok, name |-> name, score |-> score]

PlainEvent(op, speaker_id, ok) == Event(op, speaker_id, ok, None, Zero)

\* line 470: compute_speaker_embedding called on the interval start_sec to
\* end_sec for a label
ExtractEvent(speaker_id, ok, start_sec, end_sec) ==
    [op |-> "extract", speaker |-> speaker_id, ok |-> ok, name |-> None,
     score |-> Zero, start |-> start_sec, end |-> end_sec]

(***************************************************************************)
(* Spec: one worker serving /process requests one after another.  A        *)
(* request is handled in steps: Receive (lines 410-454, up to the label    *)
(* loop), Identify (one pass of the loop of lines 457-507) and Expand      *)
(* (lines 509-530).  The clock advances with every request received.       *)
(***************************************************************************)
\* a model with encode_batch alone
BatchModel == [kind |-> "model", encode_batch |-> TRUE, encode_file |-> FALSE,
               mods |-> "absent"]

\* the models from_hparams returns in this specification
ProcessModels == {BatchModel}

Init ==
    /\ call = [fn |-> "none"]
    /\ ret = [fn |-> "pending"]
    /\ InitGlobals
    /\ \E dir \in InitialDirs : InitProcess(dir)

\* lines 410-454 on the request r; prev is the response r got before when it
\* is sent again
Receive(r, prev) ==
    /\ pc = "idle"
    /\ now < MaxRequests
    /\ LET loaded == r.json /\ r.diarizationResult.given /\ r.audioFileId # None
       IN  \E order \in IF loaded THEN Orders(DOMAIN profilesDir) ELSE {<<>>} :
         LET profiles == IF loaded THEN load_speaker_profiles(profilesDir, order)
                         ELSE <<>>
             early == validate(r, profiles)
         IN  /\ loaded_profiles' = profiles
             /\ trace' = IF loaded THEN <<PlainEvent("profiles", None, TRUE)>> ELSE <<>>
             /\ response' = early
             /\ pc' = IF early = NoResponse THEN "identify" ELSE "idle"
             /\ speaker_groups' = IF early = NoResponse
                                  THEN group_segments(r.diarizationResult.segments)
                                  ELSE <<>>
    /\ req' = r
    /\ first' = prev
    /\ speaker_mapping' = NoMapping
    /\ now' = now + 1
    /\ UNCHANGED <<harness, diarization, SpeakerRecognition, verification_model, model_loading_error,
                   loaderCalls, tempFiles, threads, profilesDir>>

Submit == \E r \in Requests : Receive(r, NoResponse)

\* the client sends the request again that it got a success response to
Resubmit == response.status = 200 /\ Receive(req, response)

\* lines 463-466, 478: the match of one label, from the mock or the matcher
identify(sr, speaker_id, embedding, profiles) ==
    IF MockMode(sr)
    THEN [name |-> MockName(speaker_id), score |-> MOCK_CONFIDENCE]
    ELSE match_speaker(embedding, profiles)

\* lines 472-504: the response that ends the loop at this label, NoResponse
\* when the label is mapped
gate(sr, speaker_id, first_segment, embedding, m, profiles) ==
    IF ~MockMode(sr) /\ ExtractionFailed(embedding)
    THEN ExtractionFailedResponse(speaker_id, first_segment.start, first_segment.end)
    ELSE IF m.name = None
    THEN NoMatchResponse(speaker_id, [i \in 1..Len(profiles) |-> profiles[i].name])
    ELSE IF BelowThreshold(m.score)
    THEN LowConfidenceResponse(speaker_id, m.name, m.score)
    ELSE NoResponse

\* what one pass of the loop adds to the history
events(sr, speaker_id, first_segment, r, m) ==
    IF MockMode(sr) THEN <<>>
    ELSE <<ExtractEvent(speaker_id, r.embedding # NoEmb,
                        first_segment.start, first_segment.end)>>
         \o (IF r.loads > 0
             THEN <<PlainEvent("model_load", speaker_id, r.verification_model # NoModel)>>
             ELSE <<>>)
         \o (IF ExtractionFailed(r.embedding) THEN <<>>
             ELSE <<Event("match", speaker_id, m.name # None, m.name, m.score)>>)

\* lines 457-507: one pass of the label loop
Identify ==
    /\ pc = "identify"
    /\ Cardinality(DOMAIN speaker_mapping) < Len(speaker_groups)
    /\ \E group \in {speaker_groups[Cardinality(DOMAIN speaker_mapping) + 1]} :
       \E o \in ComputeOracles(SpeakerRecognition, verification_model,
                    model_loading_error, tempFiles, UPLOADS[req.audioFileId],
                    <<group.segments[1].start, group.segments[1].end>>, now,
                    ProcessModels, Voices) :
       \E r \in {compute_speaker_embedding(SpeakerRecognition, verification_model,
                     model_loading_error, tempFiles, UPLOADS[req.audioFileId],
                     group.segments[1].start, group.segments[1].end, now, o)} :
       \E m \in {identify(SpeakerRecognition, group.speaker, r.embedding,
                          loaded_profiles)} :
       \E answer \in {gate(SpeakerRecognition, group.speaker, group.segments[1],
                           r.embedding, m, loaded_profiles)} :
         /\ trace' = trace \o events(SpeakerRecognition, group.speaker,
                                       group.segments[1], r, m)
         /\ response' = answer
         /\ pc' = IF answer = NoResponse THEN "identify" ELSE "idle"
         /\ speaker_mapping' =
                IF answer = NoResponse
                THEN speaker_mapping @@ (group.speaker :> m.name)
                ELSE speaker_mapping
         /\ IF MockMode(SpeakerRecognition)
            THEN UNCHANGED <<verification_model, model_loading_error,
                             loaderCalls, tempFiles>>
            ELSE /\ verification_model' = r.verification_model
                 /\ model_loading_error' = r.model_loading_error
                 /\ loaderCalls' = loaderCalls + r.loads
                 /\ tempFiles' = r.tempFiles
    /\ UNCHANGED <<harness, diarization, SpeakerRecognition, now, threads, profilesDir, req,
                   loaded_profiles, speaker_groups, first>>

\* lines 509-530: every label is mapped
Expand ==
    /\ pc = "identify"
    /\ Cardinality(DOMAIN speaker_mapping) = Len(speaker_groups)
    /\ response' = SuccessResponse(req.diarizationResult.segments, speaker_mapping, now)
    /\ pc' = "idle"
    /\ UNCHANGED <<harness, globals, threads, profilesDir, req, loaded_profiles,
                   speaker_groups, speaker_mapping, trace, first>>

Next == Submit \/ Resubmit \/ Identify \/ Expand

Spec == Init /\ [][Next]_vars

(***************************************************************************)
(* SpecProfiles: the profile directory under save_speaker_profile, under   *)
(* files put there by other means, and under load_speaker_profiles.  trace *)
(* is the history of the writes; loaded_profiles is what                   *)
(* load_speaker_profiles made of the directory as it is now, and is        *)
(* dropped when the directory changes, as each request loads it anew.      *)
(***************************************************************************)
SavedEmbeddings == {Arr(<<2, 0>>), Arr(<<1, 2>>)}

\* files written into the directory by hand or by another tool
DroppedFiles ==
    {<<ProfileFile("Alice", "json"), Content("vector", Arr(<<1, 2>>))>>,
     <<ProfileFile("Bob", "json"), Content("raw", NotAVector)>>,
     <<ProfileFile("Bob", "json"), Content("embedding", NotAVector)>>,
     <<ProfileFile("Bob", "json"), Content("null_embedding", Arr(<<2, 0>>))>>,
     <<ProfileFile("Bob", "json"), Content("no_embedding", NoEmb)>>,
     <<ProfileFile("Bob", "pkl"), Content("corrupt", NoEmb)>>,
     <<ProfileFile("Bob", "txt"), Content("raw", Arr(<<2, 0>>))>>}

InitProfiles ==
    /\ call = [fn |-> "profiles"]
    /\ ret = [fn |-> "pending"]
    /\ InitGlobals
    /\ InitProcess(NoProfileFiles)

SaveProfile ==
    /\ Len(trace) < MaxWrites
    /\ \E speaker_name \in RawNames, embedding \in SavedEmbeddings,
          outcome \in SaveOutcomes :
          \E r \in {save_speaker_profile(profilesDir, speaker_name, embedding, outcome)} :
              /\ profilesDir' = r.dir
              /\ trace' = Append(trace, [op |-> "save", speaker_name |-> speaker_name,
                                          embedding |-> embedding, saved |-> r.saved])
              /\ ret' = [fn |-> "save_speaker_profile",
                         path |-> IF r.saved THEN r.path ELSE None]
    /\ loaded_profiles' = <<>>
    /\ UNCHANGED <<call, globals, threads, pc, req, speaker_groups,
                   speaker_mapping, response, first>>

DropFile ==
    /\ Len(trace) < MaxWrites
    /\ \E d \in DroppedFiles :
          /\ profilesDir' = Put(profilesDir, d[1], d[2])
          /\ trace' = Append(trace, [op |-> "drop", file |-> d[1], content |-> d[2]])
    /\ ret' = [fn |-> "drop"]
    /\ loaded_profiles' = <<>>
    /\ UNCHANGED <<call, globals, threads, pc, req, speaker_groups,
                   speaker_mapping, response, first>>

LoadProfiles ==
    /\ \E order \in Orders(DOMAIN profilesDir) :
          /\ loaded_profiles' = load_speaker_profiles(profilesDir, order)
          /\ ret' = [fn |-> "load_speaker_profiles", order |-> order]
    /\ UNCHANGED <<call, globals, threads, profilesDir, pc, req, speaker_groups,
                   speaker_mapping, response, trace, first>>

NextProfiles == SaveProfile \/ DropFile \/ LoadProfiles

SpecProfiles == InitProfiles /\ [][NextProfiles]_vars

(***************************************************************************)
(* create_profile (lines 538-622), the handler of /api/create-profile.     *)
(* form = [audio, speakerName]: audio is the uploaded sample or NoSample,  *)
(* speakerName the form field after strip().  o = [loader, create, save]:  *)
(* what from_hparams does if line 579 loads the model, the oracle of       *)
(* create_embedding_from_audio_file, and what open and pickle.dump do.     *)
(* The sample is a file with the voice the encoder hears in it: the        *)
(* encoder is a function of the audio.  os.unlink of the temporary copy    *)
(* (line 612) succeeds.                                                    *)
(***************************************************************************)
EnrolSamples ==
    {[id |-> "alice.wav", voice |-> <<2, 0>>,
      audio |-> [ext |-> "wav", rate |-> FFMPEG_RATE, samples |-> FFMPEG_RATE,
                 src |-> "alice.wav", offset |-> 0]],
     [id |-> "bob.mp3", voice |-> <<1, 2>>,
      audio |-> [ext |-> "mp3", rate |-> 8000, samples |-> 8000,
                 src |-> "bob.mp3", offset |-> 0]]}

\* 'audio' not in request.files
NoSample == [id |-> None, voice |-> ZeroVec, audio |-> NoAudio]

Forms == [audio : EnrolSamples \cup {NoSample}, speakerName : RawNames \cup {""}]

NoAudioProvided == ErrorResponse(400, [message |-> "No audio file provided"])
SpeakerNameRequired == ErrorResponse(400, [message |-> "Speaker name is required"])
ModelNotAvailable(err) ==
    ErrorResponse(500, [message |-> "Speaker recognition model not available",
                        cause |-> err])
ModelLoadFailed(err) ==
    ErrorResponse(500, [message |-> "Failed to load speaker recognition model",
                        cause |-> err])
EmbeddingFailed ==
    ErrorResponse(500, [message |-> "Failed to extract embedding from audio file"])
SaveFailed == ErrorResponse(500, [message |-> "Failed to save speaker profile"])
\* len() of an ndarray: the size of its first dimension
len(a) == a.shape[1]

\* lines 599-605
ProfileCreated(speaker_name, profile_path, embedding) ==
    [status |-> 200, body |-> [success |-> TRUE, speakerName |-> speaker_name,
                               profilePath |-> profile_path,
                               embeddingSize |-> len(embedding)]]

create_profile(sr, vm, err, tf, dir, form, t, o) ==
    LET same == [verification_model |-> vm, model_loading_error |-> err, loads |-> 0]
        out(resp, files, d, gg, e) ==
            [response |-> resp, tempFiles |-> files, dir |-> d, embedding |-> e,
             verification_model |-> gg.verification_model,
             model_loading_error |-> gg.model_loading_error, loads |-> gg.loads]
    IN  IF form.audio = NoSample THEN out(NoAudioProvided, tf, dir, same, NoEmb)    \* 546-547
        ELSE IF form.speakerName = ""
             THEN out(SpeakerNameRequired, tf, dir, same, NoEmb)               \* 555-556
        ELSE
        LET temp_audio_path == <<"temp_profile", Sec(t), form.audio.id>>      \* 563
            tf1 == Put(tf, temp_audio_path, form.audio.audio)                 \* 564
            g == get_verification_model(sr, vm, err, o.loader)                \* 579
            ce == create_embedding_from_audio_file(sr, g.verification_model,
                      g.model_loading_error, tf1, form.audio.audio, t, o.create)
            both == [verification_model |-> ce.verification_model,
                     model_loading_error |-> ce.model_loading_error,
                     loads |-> g.loads + ce.loads]
            sv == save_speaker_profile(dir, form.speakerName, ce.embedding, o.save)
            \* lines 608-614: the finally clause
            cleaned(files) == Remove(files, temp_audio_path)
        IN  IF ~sr                                                            \* 566-572
            THEN out(ModelNotAvailable(err), cleaned(tf1), dir, same, NoEmb)
            ELSE IF g.model = NoModel                                         \* 580-586
                 THEN out(ModelLoadFailed(g.model_loading_error), cleaned(tf1), dir,
                          g, NoEmb)
            ELSE IF ce.embedding = NoEmb                                      \* 590-591
                 THEN out(EmbeddingFailed, cleaned(ce.tempFiles), dir, both, NoEmb)
            ELSE IF ~sv.saved                                                 \* 596-597
                 THEN out(SaveFailed, cleaned(ce.tempFiles), sv.dir, both, NoEmb)
            ELSE out(ProfileCreated(form.speakerName, sv.path, ce.embedding), \* 599-606
                     cleaned(ce.tempFiles), sv.dir, both, ce.embedding)

\* The oracles of create_profile on form: an outcome for every external call
\* the run makes, NoCreate's for the others.
EnrolOracles(sr, vm, err, form) ==
    IF form.audio = NoSample \/ form.speakerName = "" \/ ~sr
    THEN {[loader |-> NoCreate.loader, create |-> NoCreate, save |-> "ok"]}
    ELSE UNION {
        LET g == get_verification_model(sr, vm, err, lo)
        IN  IF g.model = NoModel
            THEN {[loader |-> lo, create |-> NoCreate, save |-> "ok"]}
            ELSE UNION {
                {[loader |-> lo, create |-> co, save |-> sv] :
                    sv \in IF create_embedding_from_audio_file(sr,
                                  g.verification_model, g.model_loading_error,
                                  NoFiles, form.audio.audio, 0, co).embedding = NoEmb
                           THEN {"ok"} ELSE SaveOutcomes} :
                co \in CreateOracles(sr, g.verification_model, g.model_loading_error,
                                     form.audio.audio, ProcessModels,
                                     {form.audio.voice})} :
        lo \in IF NeedsLoad(sr, vm, err) THEN LoaderOutcomes(ProcessModels)
               ELSE {NoCreate.loader}}

(***************************************************************************)
(* SpecEnroll: profiles are enrolled through /api/create-profile, the      *)
(* directory is loaded, and the embedding of a sample is matched against   *)
(* the loaded profiles.  trace is the history of the create_profile        *)
(* requests.                                                               *)
(***************************************************************************)
InitEnroll ==
    /\ call = [fn |-> "enroll"]
    /\ ret = [fn |-> "pending"]
    /\ InitGlobals
    /\ InitProcess(NoProfileFiles)

CreateProfile ==
    /\ Len(trace) < MaxEnrolments
    /\ \E form \in Forms :
       \E o \in EnrolOracles(SpeakerRecognition, verification_model,
                              model_loading_error, form) :
       \E r \in {create_profile(SpeakerRecognition, verification_model,
                                 model_loading_error, tempFiles, profilesDir, form,
                                 now, o)} :
         /\ response' = r.response
         /\ profilesDir' = r.dir
         /\ tempFiles' = r.tempFiles
         /\ verification_model' = r.verification_model
         /\ model_loading_error' = r.model_loading_error
         /\ loaderCalls' = loaderCalls + r.loads
         /\ trace' = Append(trace, [op |-> "create_profile",
                                     speaker_name |-> form.speakerName,
                                     sample |-> form.audio.id,
                                     status |-> r.response.status,
                                     embedding |-> r.embedding])
    /\ ret' = [fn |-> "create_profile"]
    /\ loaded_profiles' = <<>>
    /\ UNCHANGED <<call, diarization, SpeakerRecognition, now, threads, pc, req, speaker_groups,
                   speaker_mapping, first>>

\* an embedding is extracted from sample as /process and create_profile do
\* it, and matched against the profiles loaded from the directory
MatchSample ==
    /\ ret.fn \in {"load_speaker_profiles", "match_speaker"}
    /\ \E sample \in EnrolSamples :
       \E o \in CreateOracles(SpeakerRecognition, verification_model,
                               model_loading_error, sample.audio, ProcessModels,
                               {sample.voice}) :
       \E r \in {create_embedding_from_audio_file(SpeakerRecognition,
                      verification_model, model_loading_error, tempFiles,
                      sample.audio, now, o)} :
         /\ r.embedding # NoEmb
         /\ ret' = [fn |-> "match_speaker", sample |-> sample.id,
                    embedding |-> r.embedding,
                    result |-> match_speaker(r.embedding, loaded_profiles)]
         /\ tempFiles' = r.tempFiles
         /\ verification_model' = r.verification_model
         /\ model_loading_error' = r.model_loading_error
         /\ loaderCalls' = loaderCalls + r.loads
    /\ UNCHANGED <<call, diarization, SpeakerRecognition, now, threads, procvars>>

NextEnroll == CreateProfile \/ LoadProfiles \/ MatchSample

SpecEnroll == InitEnroll /\ [][NextEnroll]_vars

(***************************************************************************)
(* C5 -- match_speaker's result.                                           *)
(***************************************************************************)
MatchReturned == ret.fn = "match_speaker"

\* some profile has a positive cosine similarity to the query
SomePositive(embedding, profiles) ==
    \E i \in 1..Len(profiles) :
        Sign(similarity(embedding, profiles[i].embedding)) > 0

\* C5 as claimed: for every query embedding and every non-empty profile set
\* match_speaker returns a key of the profile set with a confidence in
\* [-1, 1], and it returns (none, 0.0) only when the profile set is empty.
C5_AsClaimed ==
    MatchReturned =>
        /\ Len(call.profiles) > 0 =>
              /\ ret.result.name \in Keys(call.profiles)
              /\ ~FloatLess(ret.result.score, Lit(-1, 1))
              /\ ~FloatLess(Lit(1, 1), ret.result.score)
        /\ (ret.result.name = None /\ ret.result.score = Zero) =>
              Len(call.profiles) = 0

\* C5 amended: match_speaker returns either a key of the profile set with a
\* confidence in (0, 1], or (none, 0.0); it returns (none, 0.0) exactly when
\* the profile set is empty or no profile has a positive cosine similarity
\* to the query.
C5_MatchResult ==
    MatchReturned =>
        /\ ret.result.name # None =>
              /\ ret.result.name \in Keys(call.profiles)
              /\ FloatLess(Zero, ret.result.score)
              /\ ~FloatLess(Lit(1, 1), ret.result.score)
        /\ ret.result.name = None => ret.result.score = Zero
        /\ ret.result.name = None <=> ~SomePositive(call.embedding, call.profiles)

\* C5 witness: a non-zero query against a full profile set of non-zero
\* vectors for which match_speaker returned (none, 0.0).
C5_Witness ==
    /\ MatchReturned
    /\ Len(call.profiles) = MaxProfiles
    /\ call.embedding.vec # ZeroVec
    /\ \A i \in 1..Len(call.profiles) : call.profiles[i].embedding.vec # ZeroVec
    /\ ret.result.name = None

(***************************************************************************)
(* C20 -- match_speaker returns the first profile of maximal similarity.   *)
(* The similarity is the one the code computes, with the floor in the      *)
(* denominators.                                                           *)
(***************************************************************************)
\* the similarity of the query to the i-th profile
SimilarityOf(i) ==
    similarity(As1D(call.embedding), As1D(call.profiles[i].embedding))

\* no profile is more similar to the query than the i-th
Maximal(i) ==
    \A k \in 1..Len(call.profiles) : ~FloatLess(SimilarityOf(i), SimilarityOf(k))

\* the first profile, in insertion order, of maximal similarity
FirstMaximal ==
    CHOOSE i \in 1..Len(call.profiles) :
        Maximal(i) /\ \A k \in 1..(i - 1) : ~Maximal(k)

\* C20 as claimed: for a non-empty profile set match_speaker returns the
\* profile whose similarity to the query is maximal, the first in insertion
\* order when several are, with that similarity as the confidence.
C20_AsClaimed ==
    (MatchReturned /\ Len(call.profiles) > 0) =>
        /\ ret.result.name = call.profiles[FirstMaximal].name
        /\ ret.result.score = SimilarityOf(FirstMaximal)

\* C20 amended: for a non-empty profile set of which some profile has a
\* positive similarity to the query, match_speaker returns the profile whose
\* similarity is maximal, the first in insertion order when several are,
\* with that similarity as the confidence; when no profile has a positive
\* similarity it returns (none, 0.0).
C20_FirstMaximal ==
    (MatchReturned /\ Len(call.profiles) > 0) =>
        IF FloatLess(Zero, SimilarityOf(FirstMaximal))
        THEN /\ ret.result.name = call.profiles[FirstMaximal].name
             /\ ret.result.score = SimilarityOf(FirstMaximal)
        ELSE /\ ret.result.name = None
             /\ ret.result.score = Zero

\* two different profiles are equally and positively similar to the query,
\* and the first of them was returned
C20_Witness ==
    /\ MatchReturned
    /\ Len(call.profiles) = 2
    /\ call.profiles[1].embedding.vec # call.profiles[2].embedding.vec
    /\ Maximal(1) /\ Maximal(2)
    /\ FloatLess(Zero, SimilarityOf(1))
    /\ ret.result.name = call.profiles[1].name

(***************************************************************************)
(* C21 -- when match_speaker reports no match.                             *)
(***************************************************************************)
\* the dot product of the query and the i-th profile is positive
PositiveDot(i) ==
    Dot(As1D(call.embedding).vec, As1D(call.profiles[i].embedding).vec) > 0

\* C21 as claimed: with a non-empty profile set match_speaker reports no
\* match only when the query is the all-zero vector; for every other query
\* it returns a profile name.
C21_AsClaimed ==
    (MatchReturned /\ Len(call.profiles) > 0) =>
        (ret.result.name = None => call.embedding.vec = ZeroVec)

\* C21 amended: with a non-empty profile set match_speaker reports no match
\* exactly when no profile has a positive dot product with the query, which
\* is so for the all-zero query and also for a query that is orthogonal or
\* opposed to every profile; for every other query it returns a profile
\* name.
C21_NoMatchCases ==
    (MatchReturned /\ Len(call.profiles) > 0) =>
        /\ ret.result.name = None <=>
               \A i \in 1..Len(call.profiles) : ~PositiveDot(i)
        /\ call.embedding.vec = ZeroVec => ret.result.name = None
        /\ ret.result.name # None => ret.result.name \in Keys(call.profiles)

\* a query that is not zero, orthogonal to one profile and opposed to the
\* other, for which no match was reported
C21_Witness ==
    /\ MatchReturned
    /\ Len(call.profiles) = 2
    /\ call.embedding.vec # ZeroVec
    /\ Dot(call.embedding.vec, call.profiles[1].embedding.vec) = 0
    /\ call.profiles[1].embedding.vec # ZeroVec
    /\ Dot(call.embedding.vec, call.profiles[2].embedding.vec) < 0
    /\ ret.result.name = None

(***************************************************************************)
(* C7 -- a load failure and the calls after it.                            *)
(***************************************************************************)
InCall(t) == threads[t].pc # "idle"
Returned(t) == threads[t].pc \in {"returned", "done"}

C8_AsClaimed == loaderCalls <= 1

\* C8 amended: the loader is invoked only by a call that finds no cached
\* model when it enters; a call that enters once a model is cached never
\* invokes it.  (It is invoked again after a failed load, and by each of two
\* calls that make the first use at the same time.)
C8_LoadOnlyWhenNotCached ==
    \A t \in Threads :
        threads[t].invoked => (SpeakerRecognition /\ ~threads[t].cached)

\* C8 witness: two threads are inside the loader at the same time.
C8_Witness ==
    \E t, u \in Threads :
        /\ t # u
        /\ threads[t].pc = "loading"
        /\ threads[u].pc = "loading"
        /\ loaderCalls = 2

(***************************************************************************)
(* C9 -- the temporary files of an extraction call.                        *)
(***************************************************************************)
ExtractionReturned ==
    ret.fn \in {"extract_segment_audio", "compute_speaker_embedding",
                "create_embedding_from_audio_file"}

\* C9: no temporary file created by an extraction call exists any more when
\* the call has returned, on every exit path.
C9_TempFilesDeleted ==
    ExtractionReturned => (ret.created \cap DOMAIN tempFiles = {})

(***************************************************************************)
(* C10 -- the order of the invocation strategies.                          *)
(***************************************************************************)
STRATEGIES == <<"encode_batch", "encode_file", "encoder">>

\* the call got as far as the strategies (lines 285-325)
StrategiesRan ==
    /\ ret.fn = "create_embedding_from_audio_file"
    /\ verification_model # NoModel
    /\ call.ffmpeg = "ok"
    /\ call.load = "ok"

\* the model has the surface of strategy i
Offered(i) ==
    IF i = 1 THEN verification_model.encode_batch
    ELSE IF i = 2 THEN verification_model.encode_file
    ELSE verification_model.mods = "encoder"

\* strategy i returns a non-null result without raising
Succeeds(i) ==
    Offered(i) /\ (IF i = 1 THEN call.s1 ELSE IF i = 2 THEN call.s2 ELSE call.s3) = "value"

\* the first strategy that succeeds, 0 when none does
FirstSuccess ==
    IF \E i \in 1..3 : Succeeds(i)
    THEN CHOOSE i \in 1..3 : Succeeds(i) /\ \A j \in 1..(i - 1) : ~Succeeds(j)
    ELSE 0

\* the strategies the model offers up to strategy n, in the fixed order
RECURSIVE OfferedUpTo(_, _)
OfferedUpTo(i, n) ==
    IF i > n THEN <<>>
    ELSE (IF Offered(i) THEN <<STRATEGIES[i]>> ELSE <<>>) \o OfferedUpTo(i + 1, n)

\* C10: the strategies are invoked in the order encode_batch, encode_file,
\* encoder module; the result of the first one that returns a non-null value
\* without raising is accepted and no later one is invoked; the call returns
\* no embedding exactly when no strategy does so.
C10_StrategyOrder ==
    StrategiesRan =>
        /\ ret.invoked = OfferedUpTo(1, IF FirstSuccess = 0 THEN 3 ELSE FirstSuccess)
        /\ ret.accepted = (IF FirstSuccess = 0 THEN None ELSE STRATEGIES[FirstSuccess])
        /\ (ret.embedding = NoEmb) <=> (FirstSuccess = 0)

\* C10 witness: on a model with all three surfaces encode_batch failed,
\* encode_file returned a value, and the encoder module was not invoked.
C10_Witness ==
    /\ StrategiesRan
    /\ \A i \in 1..3 : Offered(i)
    /\ call.s1 # "value"
    /\ call.s2 = "value"
    /\ ret.invoked = <<"encode_batch", "encode_file">>
    /\ ret.accepted = "encode_file"
    /\ ret.embedding # NoEmb

(***************************************************************************)
(* Claims about /process.  They speak of the request handled last: req,    *)
(* its history trace and, once the handler returned, its response.         *)
(***************************************************************************)
InputLabels == {req.diarizationResult.segments[j].speaker :
                   j \in 1..Len(req.diarizationResult.segments)}

Completed == pc = "idle" /\ response.status # 0

EventsOf(op) == {i \in 1..Len(trace) : trace[i].op = op}

\* the matches of the request whose confidence is below 0.7
LowMatches == {i \in EventsOf("match") :
                  trace[i].name # None /\ FloatLess(trace[i].score, Lit(7, 10))}

FailedExtractions == {i \in EventsOf("extract") : ~trace[i].ok}

NoResultFields ==
    DOMAIN response.body \cap {"speakerMapping", "identifiedSegments"} = {}

\* C1: with the embedding model available, a request in which some label's
\* best match has a confidence below 0.7 ends with a client error that
\* carries that label, the matched name, the confidence and the threshold
\* 0.7, and with neither speakerMapping nor identifiedSegments, also when
\* other labels passed the gate before.
C1_LowConfidenceAborts ==
    SpeakerRecognition =>
        \A i \in LowMatches :
            /\ Completed
            /\ response.status = 400
            /\ response.body =
                   [error |-> [message |-> "Speaker identification confidence too low for",
                               speaker |-> trace[i].speaker],
                    details |-> [speakerName |-> trace[i].name,
                                 confidence |-> trace[i].score,
                                 threshold |-> Lit(7, 10)]]
            /\ NoResultFields

\* a request aborted at the gate after another label had passed it
C1_Witness ==
    /\ SpeakerRecognition
    /\ LowMatches # {}
    /\ DOMAIN speaker_mapping # {}
    /\ response.status = 400

\* C2: on every success response the keys of speakerMapping are exactly the
\* distinct speaker values of the request's segments.
C2_MappingKeys ==
    (Completed /\ response.status = 200) =>
        DOMAIN response.body.speakerMapping = InputLabels

\* a success response to segments of two labels, identified by the model
C2_Witness ==
    /\ Completed
    /\ response.status = 200
    /\ SpeakerRecognition
    /\ Cardinality(InputLabels) = 2
    /\ DOMAIN response.body.speakerMapping = InputLabels

\* C3: a request in which the extraction for some label's first segment
\* failed ends with a server error naming that label and with neither
\* speakerMapping nor identifiedSegments, whatever was mapped before.
C3_ExtractionFailureAborts ==
    \A i \in FailedExtractions :
        /\ Completed
        /\ response.status = 500
        /\ DOMAIN response.body = {"error"}
        /\ response.body.error.message
               = "Failed to extract embedding for diarized speaker"
        /\ response.body.error.speaker = trace[i].speaker
        /\ NoResultFields

\* a failed extraction for the second label, the first one already mapped
C3_Witness ==
    /\ FailedExtractions # {}
    /\ DOMAIN speaker_mapping # {}
    /\ response.status = 500

\* the request got as far as loading the profiles and none was loaded
LoadedNoProfiles ==
    /\ EventsOf("profiles") # {}
    /\ Len(loaded_profiles) = 0

\* C4: a request that loads an empty profile set ends with the no-profiles
\* client error, and its history holds no extraction, no model load and no
\* match.
C4_NoProfilesNoWork ==
    LoadedNoProfiles =>
        /\ Completed
        /\ response = NoProfilesFound
        /\ EventsOf("extract") \cup EventsOf("model_load") \cup EventsOf("match") = {}

\* an otherwise valid request, the model available, files in the profile
\* directory but no profile among them
C4_Witness ==
    /\ LoadedNoProfiles
    /\ response = NoProfilesFound
    /\ SpeakerRecognition
    /\ DOMAIN profilesDir # {}
    /\ Len(req.diarizationResult.segments) > 0
    /\ req.audioFileId \in UploadIds

\* the request handled last repeated one that had succeeded, and is answered
Repeated == Completed /\ first.status = 200

\* C6 as the specification states it: the repeated request is answered with
\* the first response, without any extraction.
C6_AsClaimed ==
    Repeated => response = first /\ EventsOf("extract") = {}

\* C6: /process keeps no cache.  A repeated request loads the profiles
\* again and, with the model available, runs the extraction again (for
\* every distinct label when it succeeds); its success response carries its
\* own processedAt.
C6_RepeatRecomputes ==
    Repeated =>
        /\ EventsOf("profiles") # {}
        /\ SpeakerRecognition => EventsOf("extract") # {}
        /\ response.status = 200 =>
               /\ SpeakerRecognition =>
                      {trace[i].speaker : i \in EventsOf("extract")} = InputLabels
               /\ response.body.processedAt # first.body.processedAt

\* a repeated request answered with the same mapping after it extracted again
C6_Witness ==
    /\ Repeated
    /\ SpeakerRecognition
    /\ response.status = 200
    /\ response.body.speakerMapping = first.body.speakerMapping
    /\ EventsOf("extract") # {}

(***************************************************************************)
(* C11 -- the clamping of the requested interval.                          *)
(***************************************************************************)
\* extract_segment_audio returned and had loaded the waveform (line 178)
SliceAttempted == ret.fn = "extract_segment_audio" /\ ret.waveform # NoAudio

RequestedStart == call.start * ret.waveform.rate
RequestedEnd == call.end * ret.waveform.rate

ClampedEnd == IF RequestedEnd > ret.waveform.samples THEN ret.waveform.samples
              ELSE RequestedEnd

\* C11: once the waveform is loaded, extract_segment_audio returns the samples
\* from the requested start up to the requested end or the end of the
\* waveform, whichever comes first, and fails exactly when that clamped
\* interval is empty or inverted; an end beyond the audio alone is no failure.
C11_ClampedSlice ==
    SliceAttempted =>
        IF RequestedStart < ClampedEnd
        THEN /\ ret.segment # NoAudio
             /\ ret.segment.rate = ret.waveform.rate
             /\ ret.segment.offset = RequestedStart
             /\ ret.segment.samples = ClampedEnd - RequestedStart
        ELSE ret.segment = NoAudio

\* a start inside the audio with an end after it: the slice runs to the end
C11_Witness ==
    /\ SliceAttempted
    /\ RequestedStart < ret.waveform.samples
    /\ RequestedEnd > ret.waveform.samples
    /\ ret.segment # NoAudio
    /\ ret.segment.offset + ret.segment.samples = ret.waveform.samples

(***************************************************************************)
(* C12 -- segments with start = end.                                       *)
(***************************************************************************)
InputSegments == req.diarizationResult.segments

\* segment j is the first input segment of its label
FirstOfLabel(j) ==
    \A k \in 1..(j - 1) : InputSegments[k].speaker # InputSegments[j].speaker

EmptyInterval(j) == InputSegments[j].start = InputSegments[j].end

\* C12: a request with a segment of start = end that is the first segment
\* of its label does not succeed; in a request that succeeds, a segment of
\* start = end that comes later for its label is emitted in
\* identifiedSegments with the name its label is mapped to, and no
\* extraction was run for it (one extraction per label, none failed).
C12_EmptySegment ==
    Completed =>
        /\ (\E j \in 1..Len(InputSegments) : FirstOfLabel(j) /\ EmptyInterval(j))
               => response.status # 200
        /\ response.status = 200 =>
               \A j \in 1..Len(InputSegments) :
                   (EmptyInterval(j) /\ ~FirstOfLabel(j)) =>
                       /\ response.body.identifiedSegments[j].speakerName
                              = response.body.speakerMapping[InputSegments[j].speaker]
                       /\ response.body.identifiedSegments[j].start
                              = InputSegments[j].start
                       /\ response.body.identifiedSegments[j].end
                              = InputSegments[j].end
                       /\ FailedExtractions = {}

(***************************************************************************)
(* C22 -- the extractions of a successful request.                         *)
(***************************************************************************)
\* the extractions of the request, in the order they were run
Extractions == SelectSeq(trace, LAMBDA e : e.op = "extract")

\* the input positions of the segments that are the first of their label,
\* in input order
RECURSIVE FirstPositions(_)
FirstPositions(n) ==
    IF n = 0 THEN <<>>
    ELSE IF FirstOfLabel(n) THEN Append(FirstPositions(n - 1), n)
    ELSE FirstPositions(n - 1)

Representatives == FirstPositions(Len(InputSegments))

\* C22: in a request that succeeded, the extractions are one per distinct
\* label, in the order the labels first appear in the input, each on the
\* interval of the first input segment of its label, and there is no other.
C22_OnePerLabel ==
    (Completed /\ response.status = 200) =>
        /\ Len(Extractions) = Len(Representatives)
        /\ \A g \in 1..Len(Representatives) :
               /\ Extractions[g].speaker = InputSegments[Representatives[g]].speaker
               /\ Extractions[g].start = InputSegments[Representatives[g]].start
               /\ Extractions[g].end = InputSegments[Representatives[g]].end

(***************************************************************************)
(* C23 -- the identified segments of a successful response.                *)
(***************************************************************************)
IdentifiedSegments == response.body.identifiedSegments

\* C23: a successful response has one identified segment per input
\* segment, in input order, with the label, start and end of that input
\* segment and the name speakerMapping has for its label; the fallback
\* 'Unknown' of line 512 is never taken.
C23_SegmentsExpanded ==
    (Completed /\ response.status = 200) =>
        /\ Len(IdentifiedSegments) = Len(InputSegments)
        /\ \A j \in 1..Len(InputSegments) :
               /\ IdentifiedSegments[j].speakerId = InputSegments[j].speaker
               /\ IdentifiedSegments[j].start = InputSegments[j].start
               /\ IdentifiedSegments[j].end = InputSegments[j].end
               /\ InputSegments[j].speaker \in DOMAIN response.body.speakerMapping
               /\ IdentifiedSegments[j].speakerName
                      = response.body.speakerMapping[InputSegments[j].speaker]
               /\ IdentifiedSegments[j].speakerName # "Unknown"

\* a successful response to two segments of one label with different
\* intervals, the label matched against the profiles
C23_Witness ==
    /\ Completed /\ response.status = 200
    /\ SpeakerRecognition
    /\ Len(InputSegments) = 2
    /\ InputSegments[1].speaker = InputSegments[2].speaker
    /\ InputSegments[1].start # InputSegments[2].start
    /\ EventsOf("match") # {}

(***************************************************************************)
(* C14 -- requests served without the embedding model.                     *)
(***************************************************************************)
\* the request passed the checks of lines 415-441
ValidInput == Len(speaker_groups) > 0

\* the process has no model: the class was not imported, or no load succeeded
ModelAbsent == ~SpeakerRecognition \/ verification_model = NoModel

\* C14: a completed request with valid input and an enrolled profile that
\* was served without the model ended with a server error, and every entry
\* of a returned speakerMapping rests on an embedding that was extracted for
\* its label and matched against the profiles.
C14_ModelAbsentFails ==
    Completed =>
        /\ (ModelAbsent /\ ValidInput /\ Len(loaded_profiles) > 0)
               => response.status = 500
        /\ response.status = 200 =>
               \A l \in DOMAIN response.body.speakerMapping :
                   /\ \E i \in EventsOf("extract") : trace[i].speaker = l /\ trace[i].ok
                   /\ \E i \in EventsOf("match") :
                          /\ trace[i].speaker = l
                          /\ trace[i].name = response.body.speakerMapping[l]

(***************************************************************************)
(* C13 -- the status classes of the failure responses.                     *)
(***************************************************************************)
Failed == Completed /\ response.status # 200

\* the classes of a failure response, by what it says
ClientErrorMessages ==
    {"diarizationResult is required", "audioFileId is required",
     "No speaker profiles found", "No segments found in diarization result",
     "Audio file not found"}
ServerErrorMessages ==
    {"Failed to extract embedding for diarized speaker",
     "Could not identify speaker for diarized speaker", "exception"}
PolicyRejectionMessages == {"Speaker identification confidence too low for"}

IsClientError == Failed /\ response.body.error.message \in ClientErrorMessages
IsServerError == Failed /\ response.body.error.message \in ServerErrorMessages
IsPolicyRejection == Failed /\ response.body.error.message \in PolicyRejectionMessages

\* the statuses the handler gives to client errors and to server errors
ClientErrorStatuses ==
    {DiarizationRequired.status, AudioFileIdRequired.status, NoProfilesFound.status,
     NoSegmentsFound.status} \cup {AudioNotFound(a).status : a \in {"gone.wav"}}
ServerErrorStatuses ==
    {ExtractionFailedResponse(l, 0, 0).status : l \in Labels}
    \cup {NoMatchResponse(l, <<>>).status : l \in Labels}
    \cup {UnhandledException.status}

\* C13 as the specification states it: the status of a low-confidence
\* rejection is the status of no client error and of no server error.
C13_AsClaimed ==
    IsPolicyRejection =>
        response.status \notin ClientErrorStatuses \cup ServerErrorStatuses

\* C13: the status separates two classes.  The client errors the handler
\* checks for and low-confidence rejections have a 4xx status (400; 404 for
\* a missing audio file); server errors, and a body that is not JSON, have
\* 500.  A low-confidence rejection has the status 400 of the
\* client errors and differs from them by its details object, which no other
\* failure response has.
C13_StatusClasses ==
    Failed =>
        /\ IsClientError \/ IsServerError \/ IsPolicyRejection
        /\ IsClientError => response.status \in {400, 404}
        /\ IsServerError => response.status = 500
        /\ ~req.json => IsServerError
        /\ IsPolicyRejection =>
               response.status = 400 /\ response.status \in ClientErrorStatuses
        /\ IsPolicyRejection <=> ("details" \in DOMAIN response.body)

\* a low-confidence rejection was returned
C13_Witness ==
    /\ IsPolicyRejection
    /\ "details" \in DOMAIN response.body
    /\ response.status = NoProfilesFound.status

(***************************************************************************)
(* C19 -- the order of the work within one /process request.               *)
(***************************************************************************)
\* the extractions and matches of the request, in the order they were made
LabelEvents == EventsOf("extract") \cup EventsOf("match")

\* the place of a label in the order the labels are handled in
GroupIndex(label) ==
    CHOOSE g \in 1..Len(speaker_groups) : speaker_groups[g].speaker = label

\* event i is a failure: a failed extraction, no match, or a confidence
\* below 0.7
Failure(i) ==
    \/ trace[i].op = "extract" /\ ~trace[i].ok
    \/ trace[i].op = "match"
          /\ (trace[i].name = None \/ FloatLess(trace[i].score, Lit(7, 10)))

\* before event i, label was extracted, then matched, and passed the gate
PassedBefore(label, i) ==
    \E e, m \in 1..(i - 1) :
        /\ e < m
        /\ trace[e].op = "extract" /\ trace[e].speaker = label /\ trace[e].ok
        /\ trace[m].op = "match" /\ trace[m].speaker = label /\ ~Failure(m)

\* C19: within one request the labels are handled one after another, and
\* the request ends at the first failure: the extraction for a label starts
\* only after every earlier label was extracted, matched and passed the
\* gate; a label is matched only after its own extraction; and after a
\* failed extraction, a missing match or a low confidence the request has
\* failed and no extraction or match follows.
C19_SequentialTerminal ==
    \A i \in LabelEvents :
        /\ \A j \in LabelEvents :
              (trace[j].op = trace[i].op /\ trace[j].speaker = trace[i].speaker) => j = i
        /\ trace[i].op = "extract" =>
              \A g \in 1..(GroupIndex(trace[i].speaker) - 1) :
                  PassedBefore(speaker_groups[g].speaker, i)
        /\ trace[i].op = "match" =>
              \E e \in 1..(i - 1) :
                  /\ trace[e].op = "extract" /\ trace[e].ok
                  /\ trace[e].speaker = trace[i].speaker
        /\ Failure(i) =>
              /\ \A j \in LabelEvents : j <= i
              /\ Completed /\ response.status \notin {0, 200}

\* the first label passed the gate and the second failed: the request ended
\* there
C19_Witness ==
    /\ Len(speaker_groups) = 2
    /\ \E i \in LabelEvents :
          /\ Failure(i)
          /\ trace[i].speaker = speaker_groups[2].speaker
          /\ PassedBefore(speaker_groups[1].speaker, i)
    /\ Completed

(***************************************************************************)
(* The diarization service (src/services/diarization/app.py): its /process *)
(* handler and the result cache.  An upload is its extension and its       *)
(* bytes; two of the uploads are byte-identical under different names.     *)
(***************************************************************************)
Bytes == {"A", "B"}

UPLOADS_DIR ==
    [id \in {"talk.wav", "copy.wav", "other.mp3"} |->
        [ext |-> IF id = "other.mp3" THEN "mp3" ELSE "wav",
         bytes |-> IF id = "other.mp3" THEN "B" ELSE "A"]]

\* hashlib.sha256: the digests of different contents differ
sha256 == [b \in Bytes |-> <<"sha256", b>>]

\* lines 135-141: the digest of the bytes of the file
compute_file_hash(file_path) == sha256[UPLOADS_DIR[file_path].bytes]

NoResult == [jobId |-> None]

\* lines 143-159: None when the audio file is missing, when there is no
\* cache file for its digest, or when json.load raises on the cache file
get_cached_result(cache, audio_file_id) ==
    IF audio_file_id \notin DOMAIN UPLOADS_DIR THEN NoResult
    ELSE LET cache_path == compute_file_hash(audio_file_id)
         IN  IF cache_path \in DOMAIN cache /\ cache[cache_path].kind = "json"
             THEN cache[cache_path].value
             ELSE NoResult

\* lines 161-175: open(cache_path, 'w') creates or truncates the cache
\* file, json.dump fills it; an exception of either is printed and dropped
CacheFileOpened(cache, audio_file_id) ==
    Put(cache, compute_file_hash(audio_file_id), [kind |-> "corrupt"])

CacheFileWritten(cache, audio_file_id, result) ==
    Put(cache, compute_file_hash(audio_file_id), [kind |-> "json", value |-> result])

\* lines 22-83: the pipeline is loaded when there is none; lo tells whether
\* Pipeline.from_pretrained succeeds
get_pipeline(pl, lo) == IF pl # None THEN pl ELSE IF lo THEN "pipeline" ELSE None

\* lines 210-216, times in tenths of a second
MockSegments ==
    <<[speaker |-> "SPEAKER_00", start |-> 0, end |-> 52],
      [speaker |-> "SPEAKER_01", start |-> 55, end |-> 123],
      [speaker |-> "SPEAKER_00", start |-> 128, end |-> 185],
      [speaker |-> "SPEAKER_02", start |-> 190, end |-> 257],
      [speaker |-> "SPEAKER_01", start |-> 262, end |-> 320]>>

\* lines 270-276: what the pipeline finds in the audio
PipelineSegments(bytes) ==
    IF bytes = "A" THEN <<[speaker |-> "SPEAKER_00", start |-> 0, end |-> 10]>>
    ELSE <<>>

JobIds == {"job1", "job2"}

DiarizationRequests ==
    [json : {TRUE}, jobId : JobIds,
     audioFileId : DOMAIN UPLOADS_DIR \cup {None, "gone.wav"}]
        \cup {[json |-> FALSE, jobId |-> None, audioFileId |-> None]}

DiarizationError(status, message) == ErrorResponse(status, [message |-> message])

(***************************************************************************)
(* SpecCache: the /process handler of the diarization service (lines       *)
(* 177-300) on worker threads that serve requests at the same time.        *)
(* threads[t] is where thread t is in the handler, trace the history of    *)
(* the requests: for each its input, the requests that had completed when  *)
(* it arrived, and how it was answered.                                    *)
(***************************************************************************)
IdleWorker == [pc |-> "idle", k |-> 0, result |-> NoResult]

InitCache ==
    /\ call = [fn |-> "diarization"]
    /\ ret = [fn |-> "pending"]
    /\ Pipeline \in BOOLEAN
    /\ pipeline = None
    /\ diarization_cache = NoCache
    /\ SpeakerRecognition = FALSE
    /\ verification_model = NoModel
    /\ model_loading_error = "Import error"
    /\ loaderCalls = 0
    /\ tempFiles = NoFiles
    /\ now = 0
    /\ threads = [t \in Threads |-> IdleWorker]
    /\ InitProcess(NoProfileFiles)

CompletedRequests == {i \in 1..Len(trace) : trace[i].done}

\* thread t returns resp for its request
Respond(t, resp, hit, ran, stored) ==
    /\ response' = resp
    /\ trace' = [trace EXCEPT ![threads[t].k] =
                    [@ EXCEPT !.done = TRUE, !.response = resp, !.hit = hit,
                              !.ran = ran, !.stored = stored]]
    /\ threads' = [threads EXCEPT ![t] = IdleWorker]

\* lines 184-189: the request arrives and its input is checked
DiarizeReceive(t) ==
    /\ threads[t].pc = "idle"
    /\ Len(trace) < MaxNow
    /\ \E r \in DiarizationRequests :
        LET entry == [audioFileId |-> r.audioFileId, jobId |-> r.jobId,
                      after |-> CompletedRequests, done |-> FALSE, hit |-> FALSE,
                      ran |-> FALSE, stored |-> FALSE, response |-> NoResponse]
            failed(resp) ==
                /\ trace' = Append(trace, [entry EXCEPT !.done = TRUE,
                                                        !.response = resp])
                /\ response' = resp
                /\ UNCHANGED threads
        IN  IF ~r.json THEN failed(DiarizationError(500, "exception"))  \* 291-300
            ELSE IF r.audioFileId = None
            THEN failed(DiarizationError(400, "audioFileId is required"))
            ELSE /\ trace' = Append(trace, entry)
                 /\ threads' = [threads EXCEPT ![t] =
                                   [IdleWorker EXCEPT !.pc = "lookup",
                                                      !.k = Len(trace) + 1]]
                 /\ UNCHANGED response
    /\ UNCHANGED <<harness, globals, profilesDir, pc, req, loaded_profiles,
                   speaker_groups, speaker_mapping, first>>

\* lines 193-201: the cache is read; on a miss the audio file must exist
DiarizeLookup(t) ==
    /\ threads[t].pc = "lookup"
    /\ \E cached_result \in {get_cached_result(diarization_cache,
                                                trace[threads[t].k].audioFileId)} :
        IF cached_result # NoResult
        THEN Respond(t, [status |-> 200, body |-> cached_result], TRUE, FALSE, FALSE)
        ELSE IF trace[threads[t].k].audioFileId \notin DOMAIN UPLOADS_DIR
        THEN Respond(t, DiarizationError(404, "Audio file not found"),
                     FALSE, FALSE, FALSE)
        ELSE /\ threads' = [threads EXCEPT ![t].pc = "diarize"]
             /\ UNCHANGED <<response, trace>>
    /\ UNCHANGED <<harness, globals, profilesDir, pc, req, loaded_profiles,
                   speaker_groups, speaker_mapping, first>>

\* lines 203-282: the result is made, by the mock or by the pipeline.  load
\* tells whether Pipeline.from_pretrained succeeds if called, ffmpeg and
\* run what ffmpeg and the pipeline do.  The temporary WAV file of line 236
\* is deleted at line 265.
DiarizeRun(t) ==
    /\ threads[t].pc = "diarize"
    /\ \E load \in BOOLEAN, ffmpeg \in {"ok", "fail"}, run \in CallOutcomes :
        LET r == trace[threads[t].k]
            diarization_pipeline == get_pipeline(pipeline, load)
            result == [jobId |-> r.jobId,
                       segments |-> IF Pipeline
                                    THEN PipelineSegments(UPLOADS_DIR[r.audioFileId].bytes)
                                    ELSE MockSegments,
                       processedAt |-> now]
            made == /\ threads' = [threads EXCEPT ![t].pc = "save",
                                                  ![t].result = result]
                    /\ UNCHANGED <<response, trace>>
            failed(message) ==
                Respond(t, DiarizationError(500, message), FALSE, FALSE, FALSE)
        IN  IF ~Pipeline THEN made /\ UNCHANGED pipeline            \* 204-218
            ELSE /\ pipeline' = diarization_pipeline
                 /\ IF diarization_pipeline = None                 \* 223-227
                    THEN failed("Diarization pipeline failed to load")
                    ELSE IF UPLOADS_DIR[r.audioFileId].ext # "wav" /\ ffmpeg # "ok"
                    THEN failed("FFmpeg conversion failed")        \* 251-254
                    ELSE IF run = "raise"                          \* 255-260
                    THEN failed("Error running diarization pipeline")
                    ELSE made                                      \* 270-282
    /\ UNCHANGED <<harness, Pipeline, diarization_cache, SpeakerRecognition,
                   verification_model, model_loading_error, loaderCalls, tempFiles,
                   now, profilesDir, pc, req, loaded_profiles, speaker_groups,
                   speaker_mapping, first>>

\* lines 171 and 285: save_cached_result opens the cache file for writing;
\* when open raises, nothing is stored and the result is returned (289)
DiarizeSaveOpen(t) ==
    /\ threads[t].pc = "save"
    /\ \E outcome \in CallOutcomes :
        IF outcome = "ok"
        THEN /\ diarization_cache' =
                    CacheFileOpened(diarization_cache, trace[threads[t].k].audioFileId)
             /\ threads' = [threads EXCEPT ![t].pc = "dump"]
             /\ UNCHANGED <<response, trace>>
        ELSE /\ Respond(t, [status |-> 200, body |-> threads[t].result],
                        FALSE, TRUE, FALSE)
             /\ UNCHANGED diarization_cache
    /\ UNCHANGED <<harness, Pipeline, pipeline, SpeakerRecognition,
                   verification_model, model_loading_error, loaderCalls, tempFiles,
                   now, profilesDir, pc, req, loaded_profiles, speaker_groups,
                   speaker_mapping, first>>

\* lines 172 and 289: json.dump writes the result, or raises and leaves the
\* file as it is; the result is returned
DiarizeSaveDump(t) ==
    /\ threads[t].pc = "dump"
    /\ \E outcome \in CallOutcomes :
        /\ diarization_cache' =
               IF outcome = "ok"
               THEN CacheFileWritten(diarization_cache,
                        trace[threads[t].k].audioFileId, threads[t].result)
               ELSE diarization_cache
        /\ Respond(t, [status |-> 200, body |-> threads[t].result],
                   FALSE, TRUE, outcome = "ok")
    /\ UNCHANGED <<harness, Pipeline, pipeline, SpeakerRecognition,
                   verification_model, model_loading_error, loaderCalls, tempFiles,
                   now, profilesDir, pc, req, loaded_profiles, speaker_groups,
                   speaker_mapping, first>>

NextCache ==
    \E t \in Threads :
        \/ DiarizeReceive(t)
        \/ DiarizeLookup(t)
        \/ DiarizeRun(t)
        \/ DiarizeSaveOpen(t)
        \/ DiarizeSaveDump(t)

SpecCache == InitCache /\ [][NextCache]_vars

(***************************************************************************)
(* Claims about the result cache (SpecCache).                              *)
(***************************************************************************)
\* the i-th request was for an uploaded file
ForUpload(i) == trace[i].audioFileId \in DOMAIN UPLOADS_DIR

SameBytes(i, j) ==
    /\ ForUpload(i) /\ ForUpload(j)
    /\ UPLOADS_DIR[trace[i].audioFileId].bytes = UPLOADS_DIR[trace[j].audioFileId].bytes

\* the i-th request completed successfully and stored its result
Stored(i) == trace[i].done /\ trace[i].response.status = 200 /\ trace[i].stored

\* the j-th request was answered with a result stored for the same bytes
AnsweredFromStore(j) ==
    \E k \in 1..Len(trace) :
        /\ k # j /\ Stored(k) /\ SameBytes(k, j)
        /\ trace[j].response = trace[k].response

\* C18: after a request for an audio file has completed successfully and
\* stored its result, every request that arrives later for a file with the
\* same bytes, under any name, returns the stored result without a new run
\* of the pipeline; and a request is answered from the cache only with a
\* result stored for a file with the same bytes.
C18_CacheByContent ==
    \A j \in 1..Len(trace) :
        /\ \A i \in trace[j].after :
              (Stored(i) /\ SameBytes(i, j)) =>
                  /\ \A t \in Threads : threads[t].k = j => threads[t].pc = "lookup"
                  /\ trace[j].done => (trace[j].hit /\ AnsweredFromStore(j))
        /\ trace[j].hit => AnsweredFromStore(j)

(***************************************************************************)
(* Claims about the profile store (SpecProfiles).                          *)
(***************************************************************************)
Loaded == ret.fn = "load_speaker_profiles"

Writes == 1..Len(trace)

\* every write so far was a save_speaker_profile call that returned a path
OnlySuccessfulSaves == \A i \in Writes : trace[i].op = "save" /\ trace[i].saved

SanitizedKey(i) == secure_filename[trace[i].speaker_name]

SanitizedKeys == {SanitizedKey(i) : i \in Writes}

\* the last save whose name sanitizes to key
LastSave(key) ==
    trace[CHOOSE i \in Writes :
              /\ SanitizedKey(i) = key
              /\ \A j \in Writes : j > i => SanitizedKey(j) # key]

\* the name load_speaker_profiles gives the record saved under key: the
\* key, or ".pkl" when the key is empty
EntryName(key) == IF key = "" THEN ".pkl" ELSE key

\* the entries load_speaker_profiles returned for a key
EntriesOf(key) ==
    {i \in 1..Len(loaded_profiles) : loaded_profiles[i].name = EntryName(key)}

\* C15: after successful save_speaker_profile calls only, starting from an
\* empty directory, load_speaker_profiles returns exactly one entry per
\* distinct sanitized key, and it holds the embedding of the last save whose
\* name sanitizes to that key.
C15_LastWriteWins ==
    (Loaded /\ OnlySuccessfulSaves) =>
        /\ Len(loaded_profiles) = Cardinality(SanitizedKeys)
        /\ \A key \in SanitizedKeys :
              /\ Cardinality(EntriesOf(key)) = 1
              /\ \A i \in EntriesOf(key) :
                    loaded_profiles[i].embedding = LastSave(key).embedding

\* two raw names with one sanitized key were saved with different embeddings,
\* then another key, and the directory was loaded
C15_Witness ==
    /\ Loaded /\ OnlySuccessfulSaves /\ Len(trace) = 3
    /\ trace[1].speaker_name = "Ann Lee" /\ trace[2].speaker_name = "Ann_Lee"
    /\ trace[1].embedding # trace[2].embedding
    /\ trace[3].speaker_name = "???"
    /\ Len(loaded_profiles) = 2

\* the last write was a save_speaker_profile call that returned a path
SavedLast ==
    /\ Len(trace) > 0
    /\ trace[Len(trace)].op = "save"
    /\ trace[Len(trace)].saved

\* C26: a load_speaker_profiles that follows a successful
\* save_speaker_profile(name, e) maps the key of name to e, whatever records
\* the directory held before the save, a JSON record of the same key
\* included.
C26_SaveOverwritesAnyFormat ==
    (Loaded /\ SavedLast) =>
        /\ Cardinality(EntriesOf(SanitizedKey(Len(trace)))) = 1
        /\ \A i \in EntriesOf(SanitizedKey(Len(trace))) :
              loaded_profiles[i].embedding = trace[Len(trace)].embedding

\* a numeric vector, as opposed to None or a value of another type
IsVector(value) == value # NoEmb /\ value # NotAVector

\* a record with a vector under the key 'embedding' or 'vector', in a file
\* of either format
WellFormed(filename) ==
    /\ filename.ext \in {"pkl", "json"}
    /\ profilesDir[filename].kind \in {"embedding", "vector", "null_embedding"}
    /\ IsVector(profilesDir[filename].value)

\* the mapping has an entry for the record of filename
HasEntry(filename) ==
    \E i \in 1..Len(loaded_profiles) :
        /\ loaded_profiles[i].name = splitext_stem(filename)
        /\ loaded_profiles[i].embedding = profilesDir[filename].value

\* C16: whatever the directory holds, the mapping load_speaker_profiles
\* returns contains every well-formed record (a vector under the key
\* 'embedding' or 'vector', pickle or JSON) and has no entry for a malformed
\* record.
C16_MalformedSkipped ==
    Loaded =>
        /\ \A filename \in DOMAIN profilesDir :
              WellFormed(filename) => HasEntry(filename)
        /\ \A i \in 1..Len(loaded_profiles) :
              \E filename \in DOMAIN profilesDir :
                  /\ WellFormed(filename)
                  /\ loaded_profiles[i].name = splitext_stem(filename)
                  /\ loaded_profiles[i].embedding = profilesDir[filename].value

(***************************************************************************)
(* SpecNormalize: the worker threads of the speaker-id service run         *)
(* extract_segment_audio (lines 164-199) and                               *)
(* create_embedding_from_audio_file (lines 256-277, 341-347) at the same   *)
(* time, each on an upload of its own that is not a WAV file.  A call is   *)
(* taken in steps: the temporary path is named from the clock, ffmpeg      *)
(* writes it, torchaudio.load reads it, os.unlink removes it.  trace is    *)
(* the history of the accesses to the temporary files.                     *)
(***************************************************************************)
NormalizedIds == <<"talk.mp3", "song.ogg", "clip.flac">>

\* the upload thread t works on
NormalizedUpload(t) ==
    [ext |-> "mp3", rate |-> 8000, samples |-> 16000, src |-> NormalizedIds[t],
     offset |-> 0]

NormalizingCalls == {"extract_segment_audio", "create_embedding_from_audio_file"}

\* lines 166, 258
temp_wav_path(fn, t) ==
    IF fn = "extract_segment_audio" THEN <<"temp_segment", Sec(t)>>
    ELSE <<"temp_convert", Sec(t)>>

\* a thread outside a call
IdleCall == [pc |-> "idle", fn |-> None, temp_wav_path |-> None, waveform |-> NoAudio]

\* an access of thread t to the temporary file path: src is the upload the
\* file was made from, None when there was no file
Access(op, t, path) ==
    [op |-> op, thread |-> t, path |-> path,
     src |-> IF path \in DOMAIN tempFiles THEN tempFiles[path].src ELSE None]

InitNormalize ==
    /\ call = [fn |-> "normalize"]
    /\ ret = [fn |-> "pending"]
    /\ NoDiarization
    /\ SpeakerRecognition = TRUE
    /\ verification_model = NoModel
    /\ model_loading_error = None
    /\ loaderCalls = 0
    /\ tempFiles = NoFiles
    /\ now = 0
    /\ threads = [t \in Threads |-> IdleCall]
    /\ InitProcess(NoProfileFiles)

\* time.time() advances
Tick ==
    /\ now < MaxNow
    /\ now' = now + 1
    /\ UNCHANGED <<harness, diarization, SpeakerRecognition, verification_model,
                   model_loading_error, loaderCalls, tempFiles, threads, procvars>>

\* lines 161-166, 253-258: the input is not a WAV file, the path is named
NormalizeStart(t) ==
    /\ threads[t].pc = "idle"
    /\ \E fn \in NormalizingCalls :
         threads' = [threads EXCEPT ![t] =
                        [IdleCall EXCEPT !.pc = "ffmpeg", !.fn = fn,
                                         !.temp_wav_path = temp_wav_path(fn, now)]]
    /\ UNCHANGED <<harness, globals, procvars>>

\* lines 168-175, 259-270: ffmpeg -y writes the path; when it fails,
\* extract_segment_audio returns from its except clause (lines 202-205) and
\* create_embedding_from_audio_file goes through its finally clause
NormalizeFfmpeg(t) ==
    /\ threads[t].pc = "ffmpeg"
    /\ \E outcome \in FfmpegOutcomes :
         /\ tempFiles' = AfterFfmpeg(tempFiles, threads[t].temp_wav_path,
                                     NormalizedUpload(t), outcome)
         /\ trace' = IF outcome = "fail" THEN trace
                     ELSE Append(trace, Access("write", t, threads[t].temp_wav_path))
         /\ threads' = [threads EXCEPT ![t].pc =
                IF outcome = "ok" THEN "load"
                ELSE IF threads[t].fn = "extract_segment_audio" THEN "done"
                ELSE "unlink"]
    /\ UNCHANGED <<harness, diarization, SpeakerRecognition, verification_model,
                   model_loading_error, loaderCalls, now, profilesDir, pc, req,
                   loaded_profiles, speaker_groups, speaker_mapping, response, first>>

\* lines 178, 277: torchaudio.load(audio_path) reads the path, and raises
\* when there is no such file; after an exception extract_segment_audio
\* returns from its except clause (lines 206-210)
NormalizeLoad(t) ==
    /\ threads[t].pc = "load"
    /\ \E outcome \in IF threads[t].temp_wav_path \in DOMAIN tempFiles
                       THEN CallOutcomes ELSE {"raise"} :
         /\ trace' = IF outcome = "ok"
                     THEN Append(trace, Access("read", t, threads[t].temp_wav_path))
                     ELSE trace
         /\ threads' = [threads EXCEPT
                ![t].waveform = IF outcome = "ok"
                                THEN tempFiles[threads[t].temp_wav_path]
                                ELSE NoAudio,
                ![t].pc = IF outcome = "raise"
                             /\ threads[t].fn = "extract_segment_audio"
                          THEN "done" ELSE "unlink"]
    /\ UNCHANGED <<harness, globals, profilesDir, pc, req, loaded_profiles,
                   speaker_groups, speaker_mapping, response, first>>

\* lines 195-199, 341-347: the path is removed if it exists
NormalizeUnlink(t) ==
    /\ threads[t].pc = "unlink"
    /\ IF threads[t].temp_wav_path \in DOMAIN tempFiles
       THEN /\ tempFiles' = Remove(tempFiles, threads[t].temp_wav_path)
            /\ trace' = Append(trace, Access("unlink", t, threads[t].temp_wav_path))
       ELSE UNCHANGED <<tempFiles, trace>>
    /\ threads' = [threads EXCEPT ![t].pc = "done"]
    /\ UNCHANGED <<harness, diarization, SpeakerRecognition, verification_model,
                   model_loading_error, loaderCalls, now, profilesDir, pc, req,
                   loaded_profiles, speaker_groups, speaker_mapping, response, first>>

NextNormalize ==
    \/ Tick
    \/ \E t \in Threads :
          NormalizeStart(t) \/ NormalizeFfmpeg(t) \/ NormalizeLoad(t) \/ NormalizeUnlink(t)

SpecNormalize == InitNormalize /\ [][NextNormalize]_vars

(***************************************************************************)
(* C25 -- the temporary files of concurrent extraction calls.              *)
(***************************************************************************)
\* the accesses to a temporary file that was made from another thread's
\* upload
ForeignAccesses ==
    {i \in 1..Len(trace) :
        trace[i].src \notin {None, NormalizedUpload(trace[i].thread).src}}

\* C25: calls that run at the same time on different uploads share no
\* temporary file: no call reads, overwrites or removes a file made from
\* the upload of another, and the waveform a call loaded comes from its own
\* upload.
C25_TempFilesPrivate ==
    /\ ForeignAccesses = {}
    /\ \A t \in Threads :
          threads[t].waveform # NoAudio =>
              threads[t].waveform.src = NormalizedUpload(t).src

(***************************************************************************)
(* SpecOverwrite: the worker threads of the speaker-id service run         *)
(* save_speaker_profile (lines 349-370) for the enrolled name "Alice" and  *)
(* load_speaker_profiles (lines 119-152) at the same time.  A save is      *)
(* taken in steps: open(profile_path, 'wb') truncates the file, and        *)
(* pickle.dump with the close of the with block writes the record.  A load *)
(* lists the directory and then opens and reads one file per step.  open   *)
(* and pickle.dump succeed.  trace is the history of the calls and of      *)
(* their returns.                                                          *)
(***************************************************************************)
EnrolledBefore == Arr(<<2, 0>>)

\* the directory at the start: Alice and Bob are enrolled
EnrolledDir ==
    (ProfileFile("Alice", "pkl") :> Content("embedding", EnrolledBefore))
       @@ (ProfileFile("Bob", "pkl") :> Content("embedding", Arr(<<1, 2>>)))

\* a thread outside a call
IdleStore == [pc |-> "idle", embedding |-> NoEmb, order |-> <<>>, i |-> 0,
              profiles |-> <<>>]

\* the calls made so far
CallsMade == Cardinality({i \in 1..Len(trace) :
                             trace[i].op \in {"save_call", "load_call"}})

InitOverwrite ==
    /\ call = [fn |-> "overwrite"]
    /\ ret = [fn |-> "pending"]
    /\ NoDiarization
    /\ SpeakerRecognition = TRUE
    /\ verification_model = NoModel
    /\ model_loading_error = None
    /\ loaderCalls = 0
    /\ tempFiles = NoFiles
    /\ now = 0
    /\ threads = [t \in Threads |-> IdleStore]
    /\ InitProcess(EnrolledDir)

\* save_speaker_profile("Alice", embedding) is called: lines 351-361
SaveCall(t) ==
    /\ threads[t].pc = "idle"
    /\ CallsMade < MaxWrites
    /\ \E embedding \in SavedEmbeddings :
         /\ threads' = [threads EXCEPT ![t] =
                [IdleStore EXCEPT !.pc = "open", !.embedding = embedding]]
         /\ trace' = Append(trace, [op |-> "save_call", thread |-> t,
                                     embedding |-> embedding])
    /\ UNCHANGED <<harness, globals, profilesDir, pc, req, loaded_profiles,
                   speaker_groups, speaker_mapping, response, first>>

\* line 364: open(profile_path, 'wb') empties the file
SaveOpen(t) ==
    /\ threads[t].pc = "open"
    /\ profilesDir' = save_speaker_profile(profilesDir, "Alice",
                                           threads[t].embedding, "fail_dump").dir
    /\ threads' = [threads EXCEPT ![t].pc = "dump"]
    /\ UNCHANGED <<harness, globals, pc, req, loaded_profiles, speaker_groups,
                   speaker_mapping, response, trace, first>>

\* lines 365-367: pickle.dump, the file is closed, the path is returned
SaveDump(t) ==
    /\ threads[t].pc = "dump"
    /\ profilesDir' = save_speaker_profile(profilesDir, "Alice",
                                           threads[t].embedding, "ok").dir
    /\ trace' = Append(trace, [op |-> "save", thread |-> t,
                                embedding |-> threads[t].embedding])
    /\ threads' = [threads EXCEPT ![t] = IdleStore]
    /\ UNCHANGED <<harness, globals, pc, req, loaded_profiles, speaker_groups,
                   speaker_mapping, response, first>>

\* lines 121-127: load_speaker_profiles is called and lists the directory
LoadCall(t) ==
    /\ threads[t].pc = "idle"
    /\ CallsMade < MaxWrites
    /\ \E order \in Orders(DOMAIN profilesDir) :
         threads' = [threads EXCEPT ![t] =
                        [IdleStore EXCEPT !.pc = "read", !.order = order, !.i = 1]]
    /\ trace' = Append(trace, [op |-> "load_call", thread |-> t])
    /\ UNCHANGED <<harness, globals, profilesDir, pc, req, loaded_profiles,
                   speaker_groups, speaker_mapping, response, first>>

\* lines 128-150: one pass of the loop, on the file as it is now
LoadFile(t) ==
    /\ threads[t].pc = "read"
    /\ threads[t].i <= Len(threads[t].order)
    /\ threads' = [threads EXCEPT
           ![t].profiles = load_loop(profilesDir,
                                     <<threads[t].order[threads[t].i]>>, 1,
                                     threads[t].profiles),
           ![t].i = threads[t].i + 1]
    /\ UNCHANGED <<harness, globals, procvars>>

\* line 152: return profiles
LoadReturn(t) ==
    /\ threads[t].pc = "read"
    /\ threads[t].i > Len(threads[t].order)
    /\ trace' = Append(trace, [op |-> "load", thread |-> t,
                                profiles |-> threads[t].profiles])
    /\ loaded_profiles' = threads[t].profiles
    /\ threads' = [threads EXCEPT ![t] = IdleStore]
    /\ UNCHANGED <<harness, globals, profilesDir, pc, req, speaker_groups,
                   speaker_mapping, response, first>>

NextOverwrite ==
    \E t \in Threads :
        \/ SaveCall(t) \/ SaveOpen(t) \/ SaveDump(t)
        \/ LoadCall(t) \/ LoadFile(t) \/ LoadReturn(t)

SpecOverwrite == InitOverwrite /\ [][NextOverwrite]_vars

(***************************************************************************)
(* C27 -- a load that runs while a profile is overwritten.                 *)
(***************************************************************************)
\* the loads that have returned
Loads == {k \in 1..Len(trace) : trace[k].op = "load"}

\* where the load that returned at k was called
CalledAt(k) ==
    CHOOSE c \in 1..(k - 1) :
        /\ trace[c].op = "load_call" /\ trace[c].thread = trace[k].thread
        /\ \A d \in (c + 1)..(k - 1) :
              ~(trace[d].op = "load_call" /\ trace[d].thread = trace[k].thread)

\* the embedding Alice was enrolled with when the event at c happened: that
\* of the last save that had returned, or the one the run started with
EnrolledAt(c) ==
    IF \E j \in 1..(c - 1) : trace[j].op = "save"
    THEN trace[CHOOSE j \in 1..(c - 1) :
                   /\ trace[j].op = "save"
                   /\ \A d \in (j + 1)..(c - 1) : trace[d].op # "save"].embedding
    ELSE EnrolledBefore

\* the save called at j had not returned when the event at c happened
InProgressAt(j, c) ==
    \A d \in (j + 1)..(c - 1) :
        ~(trace[d].op = "save" /\ trace[d].thread = trace[j].thread)

\* the embeddings of the saves that ran while the load that returned at k ran
SavedDuring(k) ==
    {trace[j].embedding :
        j \in {j \in 1..(k - 1) : trace[j].op = "save_call"
                                    /\ InProgressAt(j, CalledAt(k) + 1)}}

\* the entries for Alice in what the load that returned at k returned
AliceEntries(k) ==
    {i \in 1..Len(trace[k].profiles) : trace[k].profiles[i].name = "Alice"}

\* C27: every load_speaker_profiles, also one that runs while
\* save_speaker_profile overwrites the enrolled profile Alice, returns an
\* entry for Alice, and its embedding is the one enrolled when the load was
\* called or the one of a save that ran during the load; the profile is
\* never left out.
C27_AtomicOverwrite ==
    \A k \in Loads :
        /\ Cardinality(AliceEntries(k)) = 1
        /\ \A i \in AliceEntries(k) :
              trace[k].profiles[i].embedding
                  \in {EnrolledAt(CalledAt(k))} \cup SavedDuring(k)

(***************************************************************************)
(* C24 -- the dimensions of the embedding of an enrolment.                 *)
(***************************************************************************)
\* the last request was a create_profile that enrolled a profile
EnrolmentSucceeded ==
    /\ ret.fn = "create_profile"
    /\ Len(trace) > 0
    /\ response.status = 200

\* the embedding create_embedding_from_audio_file returned to it
EnrolledEmbedding == trace[Len(trace)].embedding

\* C24: the embedding create_embedding_from_audio_file returned to a
\* successful enrolment has exactly one dimension, whatever the shape of the
\* tensor the strategy returned, and the embeddingSize of the response is
\* the length D of the vector.
C24_OneDimension ==
    EnrolmentSucceeded =>
        /\ ndim(EnrolledEmbedding) = 1
        /\ response.body.embeddingSize = Len(EnrolledEmbedding.vec)

(***************************************************************************)
(* Claims about enrolment (SpecEnroll).                                    *)
(***************************************************************************)
Matched == ret.fn = "match_speaker"

\* the storage key of the i-th create_profile request, None when it had no
\* speaker name
EnrolKey(i) ==
    IF trace[i].speaker_name = "" THEN None ELSE secure_filename[trace[i].speaker_name]

\* the i-th request enrolled a profile and no later request was made for
\* its storage key: the profile is as that request left it
Enrolled(i) ==
    /\ trace[i].status = 200
    /\ \A j \in Writes : j > i => EnrolKey(j) # EnrolKey(i)

\* the profiles enrolled from the sample whose embedding was matched
EnrolledFromSample == {i \in Writes : Enrolled(i) /\ trace[i].sample = ret.sample}

\* the cosine similarity match_speaker computes between the matched
\* embedding and a stored one
SimilarityTo(embedding) == similarity(As1D(ret.embedding), As1D(embedding))

\* C17 as claimed: after a profile was enrolled from a sample, matching an
\* embedding extracted from the same sample returns that profile, with a
\* confidence of at least 0.7.
C17_AsClaimed ==
    Matched =>
        \A i \in EnrolledFromSample :
            /\ ret.result.name = EntryName(EnrolKey(i))
            /\ ~BelowThreshold(ret.result.score)

\* C17: after a profile was enrolled from a sample, matching an embedding
\* extracted from the same sample has a confidence of at least 0.7, and it
\* returns that profile or another profile of the set whose embedding is at
\* least as similar to the sample's, such as one enrolled from the same
\* sample under another name.
C17_RoundTrip ==
    Matched =>
        \A i \in EnrolledFromSample :
            /\ ~BelowThreshold(ret.result.score)
            /\ \/ ret.result.name = EntryName(EnrolKey(i))
               \/ \E k \in 1..Len(loaded_profiles) :
                      /\ loaded_profiles[k].name = ret.result.name
                      /\ loaded_profiles[k].name # EntryName(EnrolKey(i))
                      /\ ~FloatLess(SimilarityTo(loaded_profiles[k].embedding),
                                    SimilarityTo(trace[i].embedding))

\* two profiles enrolled from different samples; the embedding of the second
\* sample is matched and its profile, the second in the set, is returned
C17_Witness ==
    /\ Matched /\ Len(trace) = 2 /\ Len(loaded_profiles) = 2
    /\ EnrolledFromSample = {2}
    /\ trace[1].sample # trace[2].sample
    /\ ret.result.name = loaded_profiles[2].name
    /\ ret.result.name = EntryName(EnrolKey(2))

====
